---- MODULE Spec2Model ----
(***************************************************************************)
(* A model of the Foundry/OpenAI gateway (chrsandb/foundry_claude_proxy):  *)
(* the metrics aggregator, the credential store, the admin config store,   *)
(* their persistence, and the chat/completions/embeddings request paths.   *)
(***************************************************************************)
EXTENDS Integers, Sequences, FiniteSets, TLC

VARIABLES
    \* ---- proxy/metrics.py: MetricsTracker ----
    lock,          \* MetricsTracker._lock: NoThread, or the thread holding it
    routes,        \* MetricsTracker._routes: route -> RouteMetrics
    persistPath,   \* MetricsTracker._persist_path ("" when not configured)
    metricsFile,   \* the document at _persist_path (NoFile when absent)
    clock,         \* time.time(), a logical clock
    tpc,           \* per thread: position inside record()
    targs,         \* per thread: the arguments of the record() call in progress
    tlocal,        \* per thread: the value loaded by `metrics.count += 1`
    calls,         \* history: the record() calls issued so far
    contended,     \* history: some record() call waited for the lock
    snap,          \* the last value returned by snapshot()
    snapReturned   \* history: how many record() calls had returned at that snapshot

mvars == <<lock, routes, persistPath, metricsFile, clock, tpc, targs, tlocal, calls,
           contended, snap, snapReturned>>

VARIABLES
    \* ---- proxy/auth_tokens.py: TokenStore ----
    tokens,        \* TokenStore.tokens: the entries in dict (insertion) order
    tokenPath,     \* TokenStore.path ("" when not configured)
    tokenFile,     \* the document at TokenStore.path (NoFile when absent)
    genCtr,        \* how many tokens _generate_token has produced
    lastOp,        \* the last TokenStore call and what it returned
    plainOf,       \* history: user -> the plaintext behind the user's stored hash
    registered     \* history: every plaintext ever registered by add or reset

tvars == <<tokens, tokenPath, tokenFile, genCtr, lastOp, plainOf, registered>>

VARIABLES
    \* ---- proxy/admin_config.py: AdminConfigStore, and what startup loads ----
    startTime,     \* MetricsTracker._start_time
    cfgData,       \* AdminConfigStore.data
    cfgPath,       \* AdminConfigStore.path ("" when no store is constructed)
    cfgFile,       \* the document at AdminConfigStore.path
    cfgLoadedAt,   \* AdminConfigStore.loaded_at
    loadRes        \* the last load of a store at startup and how it ended

svars == <<startTime, cfgData, cfgPath, cfgFile, cfgLoadedAt, loadRes>>

VARIABLES
    \* ---- one save() / _persist_locked() call, step by step ----
    saveStore,     \* the store whose save is in progress ("" when none is)
    savePc,        \* the next step of that save
    saveDoc,       \* the payload being written
    tmpFile,       \* the temporary file beside the target
    prevDoc,       \* history: the target as it was when the save began
    crashed,       \* the process was killed
    saves          \* history: how many saves have begun

pvars == <<saveStore, savePc, saveDoc, tmpFile, prevDoc, crashed, saves>>

VARIABLES
    \* ---- one request at a time through a handler ----
    proxyAuthRequired,  \* auth_tokens._proxy_auth_required
    serving,       \* the startup code has run; requests are accepted
    req,           \* the request being handled
    rpc,           \* the handler's position
    rctx,          \* the handler's locals: clean model, proxy user, user id, resource
    resp,          \* the response as the client has it so far
    pending,       \* the events the response's generator has yet to yield
    rstat,         \* history of this request: store lookups, upstream calls, records
    served         \* how many requests have arrived

rvars == <<proxyAuthRequired, serving, req, rpc, rctx, resp, pending, rstat, served>>

VARIABLES
    \* ---- proxy/tenants.py, and the callers of the pure functions ----
    tenantMappings, \* tenants._TENANT_MAPPINGS: (api key, model) -> TenantConfig
    fcall,         \* the last call of encoding.py / tools.py: arguments and result
    feed,          \* the client feeding record() with durations, and how many it sent
    upd            \* per thread: where it is inside AdminConfigStore.update

xvars == <<tenantMappings, fcall, feed, upd>>

vars == <<mvars, tvars, svars, pvars, rvars, xvars>>

\* what the actions of one component leave alone
MetricsOnly == <<lock, routes, persistPath, metricsFile, tpc, targs, tlocal, calls,
                 contended, snap, snapReturned>>
NotMetrics == <<tvars, svars, pvars, rvars>>
NotTokens == <<MetricsOnly, svars, pvars, rvars>>
NotConfig == <<MetricsOnly, tvars, startTime, pvars, rvars>>

\* ---------------------------------------------------------------- bounds
NumThreads == 2
MaxCalls == 3

\* ------------------------------------------------------------- constants
METRICS_SCHEMA_VERSION == 1
MAX_LATENCY_SAMPLES == 200

NoThread == 0
NoInt == -1          \* a usage field that is absent or null
NoDuration == -1     \* duration_ms=None
NoFile == [kind |-> "absent"]

\* a path is either unset (""), or names a file that can be written, or names
\* one under a directory where every write fails (the error is swallowed)
Writable(path) == path \notin {"", "/readonly/store.json"}

Threads == 1..NumThreads

\* ------------------------------------------------------------ TokenUsage
ZeroTokenUsage == [prompt_tokens |-> 0, completion_tokens |-> 0, total_tokens |-> 0]

ZERO_USAGE == [prompt_tokens |-> 0, completion_tokens |-> 0, total_tokens |-> 0]

\* int(usage.get(k) or 0)
IntOrZero(v) == IF v = NoInt THEN 0 ELSE v

\* TokenUsage.add
TokenUsageAdd(tu, usage) ==
    [prompt_tokens     |-> tu.prompt_tokens + IntOrZero(usage.prompt_tokens),
     completion_tokens |-> tu.completion_tokens + IntOrZero(usage.completion_tokens),
     total_tokens      |-> tu.total_tokens + IntOrZero(usage.total_tokens)]

\* d.setdefault(key, TokenUsage()).add(usage)
SetDefaultAdd(d, key, usage) ==
    IF key \in DOMAIN d
    THEN [d EXCEPT ![key] = TokenUsageAdd(@, usage)]
    ELSE d @@ (key :> TokenUsageAdd(ZeroTokenUsage, usage))

\* ---------------------------------------------------------- RouteMetrics
EmptyDict == [k \in {} |-> ZeroTokenUsage]

NewRouteMetrics(t) ==
    [count |-> 0, error_count |-> 0, last_seen |-> t, usage |-> ZeroTokenUsage,
     by_model |-> EmptyDict, by_resource |-> EmptyDict, by_user |-> EmptyDict,
     durations_ms |-> <<>>, durations_sum_ms |-> 0]

\* the samples in arrival order
Unsorted(s) == s

\* sorted(self.durations_ms)
Sorted(s) == SortSeq(s, LAMBDA a, b : a < b)

\* int(round(p * (n - 1))) for p = pc/100: Python rounds a half to the even side
RoundPct(pc, m) ==
    LET q == (pc * m) \div 100
        r == (pc * m) % 100
    IN IF r < 50 THEN q
       ELSE IF r > 50 THEN q + 1
       ELSE IF q % 2 = 0 THEN q ELSE q + 1

Min2(a, b) == IF a <= b THEN a ELSE b

\* RouteMetrics._latency_snapshot; avg is kept as the pair (sum, n)
LatencySnapshot(rm) ==
    IF rm.durations_ms = <<>>
    THEN [avg_sum |-> 0, p50 |-> 0, p95 |-> 0, p99 |-> 0, count |-> 0]
    ELSE LET sorted_vals == Sorted(rm.durations_ms)
             n == Len(sorted_vals)
             pct(pc) == IF n = 1 THEN sorted_vals[1]
                        ELSE sorted_vals[Min2(n - 1, RoundPct(pc, n - 1)) + 1]
         IN [avg_sum |-> rm.durations_sum_ms, p50 |-> pct(50), p95 |-> pct(95),
             p99 |-> pct(99), count |-> n]

\* RouteMetrics.to_dict
ToDict(rm) ==
    [count |-> rm.count, error_count |-> rm.error_count, last_seen |-> rm.last_seen,
     usage |-> rm.usage, by_model |-> rm.by_model, by_resource |-> rm.by_resource,
     by_user |-> rm.by_user, latency_ms |-> LatencySnapshot(rm)]

\* ------------------------------------------------- MetricsTracker.record
\* self._routes.setdefault(route, RouteMetrics())
SetDefaultRoute(rs, route, t) ==
    IF route \in DOMAIN rs THEN rs ELSE rs @@ (route :> NewRouteMetrics(t))

\* metrics.count += 1 (the store half); if error: metrics.error_count += 1;
\* metrics.last_seen = _now()
StoreCount(rm, loaded, error, t) ==
    [rm EXCEPT !.count = loaded + 1,
               !.error_count = IF error THEN @ + 1 ELSE @,
               !.last_seen = t]

\* the latency window with the evicted sample left in the running sum
AddUsageAndLatencyKeepSum(rm, usage, duration_ms) ==
    LET withUsage == [rm EXCEPT !.usage = TokenUsageAdd(@, usage)]
    IN IF duration_ms = NoDuration THEN withUsage
       ELSE LET appended == Append(withUsage.durations_ms, duration_ms)
                summed == withUsage.durations_sum_ms + duration_ms
            IN IF Len(appended) > MAX_LATENCY_SAMPLES
               THEN [withUsage EXCEPT !.durations_ms = Tail(appended),
                                      !.durations_sum_ms = summed]
               ELSE [withUsage EXCEPT !.durations_ms = appended,
                                      !.durations_sum_ms = summed]

\* metrics.usage.add(usage) and the latency window
AddUsageAndLatency(rm, usage, duration_ms) ==
    LET withUsage == [rm EXCEPT !.usage = TokenUsageAdd(@, usage)]
    IN IF duration_ms = NoDuration THEN withUsage
       ELSE LET appended == Append(withUsage.durations_ms, duration_ms)
                summed == withUsage.durations_sum_ms + duration_ms
            IN IF Len(appended) > MAX_LATENCY_SAMPLES
               THEN [withUsage EXCEPT !.durations_ms = Tail(appended),
                                      !.durations_sum_ms = summed - Head(appended)]
               ELSE [withUsage EXCEPT !.durations_ms = appended,
                                      !.durations_sum_ms = summed]

ModelKey(model) == IF model = "" THEN "unknown-model" ELSE model
ResourceKey(resource) == IF resource = "" THEN "unknown-resource" ELSE resource
UserKey(user_id) == IF user_id = "" THEN "unknown" ELSE user_id

\* a breakdown update that forgets the per-user totals
AddBreakdownsNoUser(rm, a) ==
    [rm EXCEPT !.by_model = SetDefaultAdd(@, ModelKey(a.model), a.usage),
               !.by_resource = SetDefaultAdd(@, ResourceKey(a.resource), a.usage)]

\* the three breakdowns
AddBreakdowns(rm, a) ==
    [rm EXCEPT !.by_model = SetDefaultAdd(@, ModelKey(a.model), a.usage),
               !.by_resource = SetDefaultAdd(@, ResourceKey(a.resource), a.usage),
               !.by_user = SetDefaultAdd(@, UserKey(a.user_id), a.usage)]

\* the in-memory effect of one whole record() call made at time t
RecordApply(rs, a, t) ==
    LET r0 == SetDefaultRoute(rs, a.route, t)
        m1 == StoreCount(r0[a.route], r0[a.route].count, a.error, t)
        m2 == AddUsageAndLatency(m1, a.usage, a.duration_ms)
        m3 == AddBreakdowns(m2, a)
    IN [r0 EXCEPT ![a.route] = m3]

\* the payload of _persist_locked
MetricsPayload(rs, start) ==
    [kind |-> "object", version |-> METRICS_SCHEMA_VERSION, start_time |-> start,
     routes |-> [r \in DOMAIN rs |-> ToDict(rs[r])]]

\* ---------------------------------------------------- the calls issued
RecordInputs ==
    { [route |-> "/v1/chat/completions", model |-> "claude-3", resource |-> "res",
       user_id |-> "alice", error |-> FALSE, duration_ms |-> NoDuration,
       usage |-> [prompt_tokens |-> 1, completion_tokens |-> 2, total_tokens |-> 3]],
      [route |-> "/v1/chat/completions", model |-> "", resource |-> "",
       user_id |-> "", error |-> TRUE, duration_ms |-> NoDuration,
       usage |-> ZERO_USAGE],
      [route |-> "/v1/embeddings", model |-> "embed", resource |-> "res",
       user_id |-> "key:abc", error |-> FALSE, duration_ms |-> 7,
       usage |-> [prompt_tokens |-> 2, completion_tokens |-> NoInt, total_tokens |-> 2]] }

NoArgs == [route |-> "", model |-> "", resource |-> "", user_id |-> "", error |-> FALSE,
           duration_ms |-> NoDuration, usage |-> ZERO_USAGE]

\* `with self._lock:` may be entered
LockFreeIgnored == TRUE

LockFree == lock = NoThread

\* a request handler calls metrics.record(...)
RecordCall(t) ==
    /\ tpc[t] = "idle"
    /\ Len(calls) < MaxCalls
    /\ \E a \in RecordInputs :
          /\ targs' = [targs EXCEPT ![t] = a]
          /\ calls' = Append(calls, a)
    /\ tpc' = [tpc EXCEPT ![t] = "lock"]
    /\ UNCHANGED <<lock, routes, persistPath, metricsFile, clock, tlocal, contended,
                   snap, snapReturned>>
    /\ UNCHANGED NotMetrics
    /\ UNCHANGED xvars

\* with self._lock: metrics = self._routes.setdefault(route, RouteMetrics());
\* the load half of metrics.count += 1
RecordEnter(t) ==
    /\ tpc[t] = "lock"
    /\ LockFree
    /\ lock' = t
    /\ routes' = SetDefaultRoute(routes, targs[t].route, clock)
    /\ tlocal' = [tlocal EXCEPT ![t] = routes'[targs[t].route].count]
    /\ tpc' = [tpc EXCEPT ![t] = "count"]
    /\ contended' = (contended \/ \E u \in Threads \ {t} : tpc[u] = "lock")
    /\ UNCHANGED <<persistPath, metricsFile, clock, targs, calls, snap, snapReturned>>
    /\ UNCHANGED NotMetrics
    /\ UNCHANGED xvars

RecordCount(t) ==
    /\ tpc[t] = "count"
    /\ routes' = [routes EXCEPT ![targs[t].route] =
                     StoreCount(@, tlocal[t], targs[t].error, clock)]
    /\ clock' = clock + 1
    /\ tpc' = [tpc EXCEPT ![t] = "usage"]
    /\ UNCHANGED <<lock, persistPath, metricsFile, targs, tlocal, calls, contended,
                   snap, snapReturned>>
    /\ UNCHANGED NotMetrics
    /\ UNCHANGED xvars

RecordUsage(t) ==
    /\ tpc[t] = "usage"
    /\ routes' = [routes EXCEPT ![targs[t].route] =
                     AddUsageAndLatency(@, targs[t].usage, targs[t].duration_ms)]
    /\ tpc' = [tpc EXCEPT ![t] = "breakdown"]
    /\ UNCHANGED <<lock, persistPath, metricsFile, clock, targs, tlocal, calls,
                   contended, snap, snapReturned>>
    /\ UNCHANGED NotMetrics
    /\ UNCHANGED xvars

RecordBreakdown(t) ==
    /\ tpc[t] = "breakdown"
    /\ routes' = [routes EXCEPT ![targs[t].route] = AddBreakdowns(@, targs[t])]
    /\ tpc' = [tpc EXCEPT ![t] = "persist"]
    /\ UNCHANGED <<lock, persistPath, metricsFile, clock, targs, tlocal, calls,
                   contended, snap, snapReturned>>
    /\ UNCHANGED NotMetrics
    /\ UNCHANGED xvars

\* self._persist_locked(), then the lock is released and record() returns;
\* a failed write is swallowed (the file keeps its previous content)
RecordPersist(t) ==
    /\ tpc[t] = "persist"
    /\ IF Writable(persistPath)
       THEN metricsFile' = MetricsPayload(routes, startTime)
       ELSE UNCHANGED metricsFile
    /\ lock' = IF lock = t THEN NoThread ELSE lock
    /\ tpc' = [tpc EXCEPT ![t] = "idle"]
    /\ targs' = [targs EXCEPT ![t] = NoArgs]
    /\ tlocal' = [tlocal EXCEPT ![t] = 0]
    /\ UNCHANGED <<routes, persistPath, clock, calls, contended, snap, snapReturned>>
    /\ UNCHANGED NotMetrics
    /\ UNCHANGED xvars

\* MetricsTracker.snapshot: the copy is taken under the lock
Snapshot ==
    /\ LockFree
    /\ snap' = [r \in DOMAIN routes |-> ToDict(routes[r])]
    /\ snapReturned' = Len(calls) - Cardinality({t \in Threads : tpc[t] # "idle"})
    /\ snap' # snap
    /\ UNCHANGED <<lock, routes, persistPath, metricsFile, clock, tpc, targs, tlocal,
                   calls, contended>>
    /\ UNCHANGED NotMetrics
    /\ UNCHANGED xvars

\* ===================================================== proxy/auth_tokens.py
TOKENS_SCHEMA_VERSION == 2

\* bounds of the credential-store model
MaxTime == 4
MaxGen == 1

Users == {"alice", "bob"}
SuppliedTokens == {1, 2}          \* caller-supplied plaintext tokens
NoToken == 0                      \* token=None (or the empty string)
GeneratedTokens == {100 + i : i \in 1..MaxGen}
\* bcrypt.gensalt(): a fresh salt at every call
Gensalt == clock
NoTime == 0                       \* last_used=None
Emails == {"", "a@example.org"}   \* "" is None

\* bcrypt.hashpw(plain, salt): the salt is kept beside a digest of salt and plain
Digest(plain, salt) == (plain * 31 + salt * 7) % 1009

\* a "hash" that keeps the token itself beside the salt
HashpwPlain(plain, salt) == [salt |-> salt, digest |-> plain]

Hashpw(plain, salt) == [salt |-> salt, digest |-> Digest(plain, salt)]

\* bcrypt.checkpw(token, hash): re-hash with the stored salt and compare
Checkpw(token, h) == Hashpw(token, h.salt) = h

\* dict helpers over the insertion-ordered entries
IndexOfUser(toks, user) ==
    IF \E i \in DOMAIN toks : toks[i].user = user
    THEN CHOOSE i \in DOMAIN toks : toks[i].user = user
    ELSE 0

\* self.tokens[user] = entry: an existing key keeps its position
PutEntry(toks, entry) ==
    LET i == IndexOfUser(toks, entry.user)
    IN IF i = 0 THEN Append(toks, entry) ELSE [toks EXCEPT ![i] = entry]

\* a delete that drops the oldest entry, whoever it belongs to
DelEntryOldest(toks, user) == Tail(toks)

\* del self.tokens[user]
DelEntry(toks, user) ==
    LET i == IndexOfUser(toks, user)
    IN SubSeq(toks, 1, i - 1) \o SubSeq(toks, i + 1, Len(toks))

\* the payload of TokenStore.save
TokensPayload(toks) ==
    [kind |-> "object", version |-> TOKENS_SCHEMA_VERSION,
     tokens |-> [i \in DOMAIN toks |->
                   [user |-> toks[i].user, hash |-> toks[i].hash, email |-> toks[i].email,
                    display_name |-> toks[i].display_name,
                    created_at |-> toks[i].created_at, last_used |-> toks[i].last_used,
                    disabled |-> toks[i].disabled]]]

\* TokenStore.list_public
ListPublic(toks) ==
    [i \in DOMAIN toks |->
        [user |-> toks[i].user, created_at |-> toks[i].created_at, email |-> toks[i].email,
         display_name |-> toks[i].display_name, last_used |-> toks[i].last_used,
         disabled |-> toks[i].disabled]]

\* TokenStore.save: nothing without a path; a failed write is swallowed
Save(toks) ==
    IF Writable(tokenPath)
    THEN tokenFile' = TokensPayload(toks)
    ELSE UNCHANGED tokenFile

\* token or self._generate_token()
PlainFor(token) == IF token = NoToken THEN 100 + genCtr + 1 ELSE token

CanChoose(token) == token # NoToken \/ genCtr < MaxGen

\* TokenStore.validate with the `if entry.disabled: continue` test left out
MatchIndexAnyEntry(toks, token) ==
    LET hits == {i \in DOMAIN toks : Checkpw(token, toks[i].hash)}
    IN IF hits = {} THEN 0 ELSE CHOOSE i \in hits : \A j \in hits : i <= j

\* TokenStore.validate: the first entry, in dict order, that is not disabled
\* and whose hash matches (0 when there is none)
MatchIndex(toks, token) ==
    LET hits == {i \in DOMAIN toks : ~toks[i].disabled /\ Checkpw(token, toks[i].hash)}
    IN IF hits = {} THEN 0 ELSE CHOOSE i \in hits : \A j \in hits : i <= j

\* a validate that returns the user of the last matching entry
ValidateUserLast(toks, token) ==
    LET hits == {i \in DOMAIN toks : ~toks[i].disabled /\ Checkpw(token, toks[i].hash)}
    IN IF hits = {} THEN "" ELSE toks[CHOOSE i \in hits : \A j \in hits : i >= j].user

\* what validate(token) returns on the store `toks` ("" is None)
ValidateUser(toks, token) ==
    IF MatchIndex(toks, token) = 0 THEN "" ELSE toks[MatchIndex(toks, token)].user

\* TokenStore.add_token
AddToken(user, token, email, disabled) ==
    /\ clock < MaxTime
    /\ CanChoose(token)
    /\ LET salt == Gensalt
           plain == PlainFor(token)
           entry == [user |-> user, hash |-> Hashpw(plain, salt), email |-> email,
                     display_name |-> "", created_at |-> clock, last_used |-> NoTime,
                     disabled |-> disabled]
       IN /\ tokens' = PutEntry(tokens, entry)
          /\ Save(tokens')
          /\ genCtr' = IF token = NoToken THEN genCtr + 1 ELSE genCtr
          /\ lastOp' = [op |-> "add", user |-> user, plain |-> plain,
                        flag |-> disabled, result |-> "token"]
          /\ plainOf' = [u \in DOMAIN plainOf \cup {user} |->
                           IF u = user THEN plain ELSE plainOf[u]]
          /\ registered' = registered \cup {plain}
    /\ clock' = clock + 1
    /\ UNCHANGED tokenPath
    /\ UNCHANGED NotTokens
    /\ UNCHANGED xvars

\* TokenStore.reset_token
ResetToken(user, token) ==
    /\ clock < MaxTime
    /\ CanChoose(token)
    /\ IF IndexOfUser(tokens, user) = 0
       THEN /\ lastOp' = [op |-> "reset", user |-> user, plain |-> 0, flag |-> FALSE,
                          result |-> ""]
            /\ UNCHANGED <<tokens, tokenFile, genCtr, plainOf, registered, clock>>
       ELSE LET salt == Gensalt
                plain == PlainFor(token)
                i == IndexOfUser(tokens, user)
            IN   /\ tokens' = [tokens EXCEPT ![i].hash = Hashpw(plain, salt),
                                             ![i].created_at = clock,
                                             ![i].last_used = NoTime]
                 /\ Save(tokens')
                 /\ genCtr' = IF token = NoToken THEN genCtr + 1 ELSE genCtr
                 /\ lastOp' = [op |-> "reset", user |-> user, plain |-> plain,
                               flag |-> FALSE, result |-> "token"]
                 /\ plainOf' = [plainOf EXCEPT ![user] = plain]
                 /\ registered' = registered \cup {plain}
                 /\ clock' = clock + 1
    /\ UNCHANGED tokenPath
    /\ UNCHANGED NotTokens
    /\ UNCHANGED xvars

\* TokenStore.set_disabled
SetDisabled(user, disabled) ==
    /\ IF IndexOfUser(tokens, user) = 0
       THEN /\ lastOp' = [op |-> "set_disabled", user |-> user, plain |-> 0,
                          flag |-> disabled, result |-> "false"]
            /\ UNCHANGED <<tokens, tokenFile>>
       ELSE /\ tokens' = [tokens EXCEPT ![IndexOfUser(tokens, user)].disabled = disabled]
            /\ Save(tokens')
            /\ lastOp' = [op |-> "set_disabled", user |-> user, plain |-> 0,
                          flag |-> disabled, result |-> "true"]
    /\ UNCHANGED <<tokenPath, genCtr, plainOf, registered, clock>>
    /\ UNCHANGED NotTokens
    /\ UNCHANGED xvars

\* TokenStore.update_metadata (display_name=None)
UpdateMetadata(user, email) ==
    /\ IF IndexOfUser(tokens, user) = 0
       THEN /\ lastOp' = [op |-> "update_metadata", user |-> user, plain |-> 0,
                          flag |-> FALSE, result |-> "false"]
            /\ UNCHANGED <<tokens, tokenFile>>
       ELSE /\ tokens' = [tokens EXCEPT ![IndexOfUser(tokens, user)].email =
                             IF email # "" THEN email ELSE @]
            /\ Save(tokens')
            /\ lastOp' = [op |-> "update_metadata", user |-> user, plain |-> 0,
                          flag |-> FALSE, result |-> "true"]
    /\ UNCHANGED <<tokenPath, genCtr, plainOf, registered, clock>>
    /\ UNCHANGED NotTokens
    /\ UNCHANGED xvars

\* TokenStore.delete_token
DeleteToken(user) ==
    /\ IF IndexOfUser(tokens, user) = 0
       THEN /\ lastOp' = [op |-> "delete", user |-> user, plain |-> 0, flag |-> FALSE,
                          result |-> "false"]
            /\ UNCHANGED <<tokens, tokenFile, plainOf>>
       ELSE /\ tokens' = DelEntry(tokens, user)
            /\ Save(tokens')
            /\ lastOp' = [op |-> "delete", user |-> user, plain |-> 0, flag |-> FALSE,
                          result |-> "true"]
            /\ plainOf' = [u \in DOMAIN plainOf \ {user} |-> plainOf[u]]
    /\ UNCHANGED <<tokenPath, genCtr, registered, clock>>
    /\ UNCHANGED NotTokens
    /\ UNCHANGED xvars

\* TokenStore.validate: last_used of the matching entry is set, nothing is saved
Validate(token) ==
    /\ clock < MaxTime
    /\ LET i == MatchIndex(tokens, token)
       IN IF i = 0
          THEN UNCHANGED <<tokens, clock>>
          ELSE /\ tokens' = [tokens EXCEPT ![i].last_used = clock]
               /\ clock' = clock + 1
    /\ lastOp' = [op |-> "validate", user |-> "", plain |-> token, flag |-> FALSE,
                  result |-> ValidateUser(tokens, token)]
    /\ UNCHANGED <<tokenPath, tokenFile, genCtr, plainOf, registered>>
    /\ UNCHANGED NotTokens
    /\ UNCHANGED xvars

\* ==================================================== proxy/admin_config.py
CONFIG_SCHEMA_VERSION == 1

\* _default_config(); "" is None, flags is the set of flags that are on
DefaultConfig == [default_model |-> "", default_resource |-> "", flags |-> {}]

\* the payload of AdminConfigStore.save
ConfigPayload(data) ==
    [kind |-> "object", version |-> CONFIG_SCHEMA_VERSION, data_is_dict |-> TRUE,
     data |-> data]

\* the bodies POSTed to /admin/config: which keys are present, and their values
ConfigUpdates ==
    { [has_model |-> TRUE, default_model |-> "claude-3", has_resource |-> FALSE,
       default_resource |-> "", has_flags |-> FALSE, flags_is_dict |-> TRUE, flags |-> {}],
      [has_model |-> FALSE, default_model |-> "", has_resource |-> TRUE,
       default_resource |-> "res", has_flags |-> TRUE, flags_is_dict |-> TRUE,
       flags |-> {"beta"}],
      [has_model |-> TRUE, default_model |-> "", has_resource |-> FALSE,
       default_resource |-> "", has_flags |-> TRUE, flags_is_dict |-> FALSE,
       flags |-> {"ignored"}] }

\* AdminConfigStore.update, the in-memory part
UpdateData(data, payload) ==
    [default_model |-> IF payload.has_model THEN payload.default_model
                       ELSE data.default_model,
     default_resource |-> IF payload.has_resource THEN payload.default_resource
                          ELSE data.default_resource,
     flags |-> IF payload.has_flags /\ payload.flags_is_dict THEN payload.flags
               ELSE data.flags]

\* AdminConfigStore.snapshot
ConfigSnapshot(data, path, loaded_at) ==
    [version |-> CONFIG_SCHEMA_VERSION, data |-> data, path |-> path,
     loaded_at |-> loaded_at]

\* ------------------------- AdminConfigStore.update, statement by statement
\* a thread that is not inside update(); its last return value, if any
NoUpdate == [pc |-> "idle", payload |-> <<>>, returned |-> <<>>]

\* a thread calls update(payload)
UpdateCall(t) ==
    /\ upd[t].pc = "idle"
    /\ \E payload \in ConfigUpdates :
          upd' = [upd EXCEPT ![t] = [pc |-> "default_model", payload |-> <<payload>>,
                                     returned |-> <<>>]]
    /\ UNCHANGED <<cfgData, cfgPath, cfgFile, cfgLoadedAt, loadRes, clock>>
    /\ UNCHANGED NotConfig
    /\ UNCHANGED <<tenantMappings, fcall, feed>>

\* if "default_model" in payload: self.data["default_model"] = ...
UpdateModel(t) ==
    /\ upd[t].pc = "default_model"
    /\ cfgData' = IF upd[t].payload[1].has_model
                  THEN [cfgData EXCEPT !.default_model = upd[t].payload[1].default_model]
                  ELSE cfgData
    /\ upd' = [upd EXCEPT ![t].pc = "default_resource"]
    /\ UNCHANGED <<cfgPath, cfgFile, cfgLoadedAt, loadRes, clock>>
    /\ UNCHANGED NotConfig
    /\ UNCHANGED <<tenantMappings, fcall, feed>>

\* if "default_resource" in payload: self.data["default_resource"] = ...
UpdateResource(t) ==
    /\ upd[t].pc = "default_resource"
    /\ cfgData' = IF upd[t].payload[1].has_resource
                  THEN [cfgData EXCEPT !.default_resource =
                                          upd[t].payload[1].default_resource]
                  ELSE cfgData
    /\ upd' = [upd EXCEPT ![t].pc = "flags"]
    /\ UNCHANGED <<cfgPath, cfgFile, cfgLoadedAt, loadRes, clock>>
    /\ UNCHANGED NotConfig
    /\ UNCHANGED <<tenantMappings, fcall, feed>>

\* if "flags" in payload: ... if isinstance(flags, dict): self.data["flags"] = flags
UpdateFlags(t) ==
    /\ upd[t].pc = "flags"
    /\ cfgData' = IF upd[t].payload[1].has_flags /\ upd[t].payload[1].flags_is_dict
                  THEN [cfgData EXCEPT !.flags = upd[t].payload[1].flags]
                  ELSE cfgData
    /\ upd' = [upd EXCEPT ![t].pc = "save"]
    /\ UNCHANGED <<cfgPath, cfgFile, cfgLoadedAt, loadRes, clock>>
    /\ UNCHANGED NotConfig
    /\ UNCHANGED <<tenantMappings, fcall, feed>>

\* self.save(): nothing without a path, the whole document otherwise
UpdateSave(t) ==
    /\ upd[t].pc = "save"
    /\ cfgFile' = IF Writable(cfgPath) THEN ConfigPayload(cfgData) ELSE cfgFile
    /\ upd' = [upd EXCEPT ![t].pc = "snapshot"]
    /\ UNCHANGED <<cfgData, cfgPath, cfgLoadedAt, loadRes, clock>>
    /\ UNCHANGED NotConfig
    /\ UNCHANGED <<tenantMappings, fcall, feed>>

\* return self.snapshot()
UpdateReturn(t) ==
    /\ upd[t].pc = "snapshot"
    /\ upd' = [upd EXCEPT ![t].pc = "idle",
                          ![t].returned = <<ConfigSnapshot(cfgData, cfgPath, cfgLoadedAt)>>]
    /\ UNCHANGED <<cfgData, cfgPath, cfgFile, cfgLoadedAt, loadRes, clock>>
    /\ UNCHANGED NotConfig
    /\ UNCHANGED <<tenantMappings, fcall, feed>>

\* ================================================ the loaders run at startup
NoVersion == -1                     \* the document has no "version" key
DocVersions == {NoVersion, 0, 1, 2, 3}

ArrayDoc == [kind |-> "array"]      \* valid JSON that is not an object: []
GarbageDoc == [kind |-> "garbage"]  \* not JSON

\* json.load(f) raises; every loader catches that and returns
Unparsable(doc) == doc.kind \in {"garbage", "partial"}

\* raw.get("version") raises AttributeError: the value has no .get
HasNoGet(doc) == doc.kind = "array"

NoLoad == [store |-> "", outcome |-> "none", unrecognized |-> FALSE, unchanged |-> TRUE]

\* the versions a loader is meant to accept
Recognized(store) ==
    IF store = "tokens" THEN {1, TOKENS_SCHEMA_VERSION}
    ELSE IF store = "metrics" THEN {METRICS_SCHEMA_VERSION}
    ELSE {CONFIG_SCHEMA_VERSION}

\* the document carries no recognized version: none at all, an unknown one, or
\* it is not an object
UnrecognizedDoc(store, doc) ==
    \/ doc.kind \in {"array", "garbage", "partial"}
    \/ doc.kind = "object" /\ doc.version \notin Recognized(store)

\* fill_usage in MetricsTracker._load_from_file
FillUsage(src) ==
    [prompt_tokens |-> IntOrZero(src.prompt_tokens),
     completion_tokens |-> IntOrZero(src.completion_tokens),
     total_tokens |-> IntOrZero(src.total_tokens)]

\* a loader that leaves the per-user breakdown out
RouteFromDictNoUsers(d, now) ==
    [count |-> d.count, error_count |-> d.error_count,
     last_seen |-> IF d.last_seen = 0 THEN now ELSE d.last_seen,
     usage |-> FillUsage(d.usage),
     by_model |-> [k \in DOMAIN d.by_model |-> FillUsage(d.by_model[k])],
     by_resource |-> [k \in DOMAIN d.by_resource |-> FillUsage(d.by_resource[k])],
     by_user |-> [k \in {} |-> ZeroTokenUsage],
     durations_ms |-> <<>>, durations_sum_ms |-> 0]

\* one RouteMetrics rebuilt from its dict; the latency window is not restored
RouteFromDict(d, now) ==
    [count |-> d.count, error_count |-> d.error_count,
     last_seen |-> IF d.last_seen = 0 THEN now ELSE d.last_seen,
     usage |-> FillUsage(d.usage),
     by_model |-> [k \in DOMAIN d.by_model |-> FillUsage(d.by_model[k])],
     by_resource |-> [k \in DOMAIN d.by_resource |-> FillUsage(d.by_resource[k])],
     by_user |-> [k \in DOMAIN d.by_user |-> FillUsage(d.by_user[k])],
     durations_ms |-> <<>>, durations_sum_ms |-> 0]

\* MetricsTracker._load_from_file
LoadFromFile(doc, rs, start, now) ==
    IF doc.kind = "absent"
    THEN [outcome |-> "nofile", routes |-> rs, start_time |-> start]
    ELSE IF Unparsable(doc)
    THEN [outcome |-> "refused", routes |-> rs, start_time |-> start]
    ELSE IF HasNoGet(doc)
    THEN [outcome |-> "raised", routes |-> rs, start_time |-> start]
    ELSE IF doc.version # METRICS_SCHEMA_VERSION
    THEN [outcome |-> "refused", routes |-> rs, start_time |-> start]
    ELSE [outcome |-> "loaded",
          routes |-> [r \in DOMAIN doc.routes |-> RouteFromDict(doc.routes[r], now)],
          start_time |-> IF doc.start_time = 0 THEN now ELSE doc.start_time]

\* version = raw.get("version") or 1
TokenDocVersion(doc) == IF doc.version \in {NoVersion, 0} THEN 1 ELSE doc.version

NoHash == [salt |-> 0, digest |-> -1]   \* the entry has no "hash"

\* the loop of TokenStore.load over tokens_raw.items()
RECURSIVE LoadEntries(_, _, _, _)
LoadEntries(es, toks, version, now) ==
    IF es = <<>> THEN toks
    ELSE LET e == Head(es)
             created == IF e.created_at = NoTime THEN now ELSE e.created_at
             entry == IF version = 1
                      THEN [user |-> e.user, hash |-> e.hash, email |-> "",
                            display_name |-> "", created_at |-> created,
                            last_used |-> NoTime, disabled |-> FALSE]
                      ELSE [user |-> e.user, hash |-> e.hash, email |-> e.email,
                            display_name |-> e.display_name, created_at |-> created,
                            last_used |-> e.last_used, disabled |-> e.disabled]
         IN LoadEntries(Tail(es), IF e.hash = NoHash THEN toks ELSE PutEntry(toks, entry),
                        version, now)

\* TokenStore.load
TokenStoreLoad(doc, toks, now) ==
    IF doc.kind = "absent" THEN [outcome |-> "nofile", tokens |-> toks]
    ELSE IF Unparsable(doc) THEN [outcome |-> "refused", tokens |-> toks]
    ELSE IF HasNoGet(doc) THEN [outcome |-> "raised", tokens |-> toks]
    ELSE IF TokenDocVersion(doc) \notin {1, TOKENS_SCHEMA_VERSION}
    THEN [outcome |-> "refused", tokens |-> toks]
    ELSE [outcome |-> "loaded",
          tokens |-> LoadEntries(doc.tokens, toks, TokenDocVersion(doc), now)]

\* AdminConfigStore.load
AdminConfigLoad(doc, data, loaded_at, now) ==
    IF doc.kind = "absent"
    THEN [outcome |-> "nofile", data |-> data, loaded_at |-> loaded_at]
    ELSE IF Unparsable(doc)
    THEN [outcome |-> "refused", data |-> data, loaded_at |-> loaded_at]
    ELSE IF HasNoGet(doc)
    THEN [outcome |-> "raised", data |-> data, loaded_at |-> loaded_at]
    ELSE IF doc.version # CONFIG_SCHEMA_VERSION \/ ~doc.data_is_dict
    THEN [outcome |-> "refused", data |-> data, loaded_at |-> loaded_at]
    ELSE [outcome |-> "loaded", data |-> doc.data, loaded_at |-> now]

\* the files an earlier run, another version or an operator may have left
StoredEntries ==
    << [user |-> "alice", hash |-> Hashpw(1, 5), email |-> "a@example.org",
        display_name |-> "", created_at |-> 1, last_used |-> NoTime, disabled |-> FALSE],
       [user |-> "bob", hash |-> Hashpw(2, 6), email |-> "", display_name |-> "",
        created_at |-> 0, last_used |-> NoTime, disabled |-> TRUE],
       [user |-> "carol", hash |-> NoHash, email |-> "", display_name |-> "",
        created_at |-> 1, last_used |-> NoTime, disabled |-> FALSE] >>

TokenDocuments ==
    {[kind |-> "object", version |-> v, tokens |-> StoredEntries] : v \in DocVersions}
        \cup {ArrayDoc, GarbageDoc}

StoredRoutes ==
    [r \in {"/v1/chat/completions"} |->
        ToDict(RecordApply([x \in {} |-> NewRouteMetrics(0)],
                           [route |-> r, model |-> "claude-3", resource |-> "res",
                            user_id |-> "alice", error |-> TRUE, duration_ms |-> 5,
                            usage |-> [prompt_tokens |-> 1, completion_tokens |-> NoInt,
                                       total_tokens |-> 1]], 1)[r])]

MetricsDocuments ==
    {[kind |-> "object", version |-> v, start_time |-> st, routes |-> StoredRoutes] :
        v \in DocVersions, st \in {0, 1}} \cup {ArrayDoc, GarbageDoc}

ConfigDocuments ==
    {[kind |-> "object", version |-> v, data_is_dict |-> b,
      data |-> [default_model |-> "claude-3", default_resource |-> "res",
                flags |-> {"beta"}]] : v \in DocVersions, b \in BOOLEAN}
        \cup {ArrayDoc, GarbageDoc}

\* the process is up: no exception has escaped the module-level startup code
Started == loadRes.outcome # "raised"

\* before the process starts, a file is already at the path a store will use
PlaceDocument(store, doc) ==
    /\ ~serving
    /\ loadRes.outcome = "none"
    /\ persistPath = "" /\ tokenPath = "" /\ cfgPath = ""
    /\ calls = <<>> /\ lastOp.op = "none"
    /\ \/ /\ store = "metrics" /\ metricsFile.kind = "absent"
          /\ metricsFile' = doc /\ UNCHANGED <<tokenFile, cfgFile>>
       \/ /\ store = "tokens" /\ tokenFile.kind = "absent"
          /\ tokenFile' = doc /\ UNCHANGED <<metricsFile, cfgFile>>
       \/ /\ store = "config" /\ cfgFile.kind = "absent"
          /\ cfgFile' = doc /\ UNCHANGED <<metricsFile, tokenFile>>
    /\ UNCHANGED <<lock, routes, persistPath, clock, tpc, targs, tlocal, calls, contended,
                   snap, snapReturned>>
    /\ UNCHANGED <<tokens, tokenPath, genCtr, lastOp, plainOf, registered>>
    /\ UNCHANGED <<startTime, cfgData, cfgPath, cfgLoadedAt, loadRes>>
    /\ UNCHANGED pvars
    /\ UNCHANGED rvars
    /\ UNCHANGED xvars

\* MetricsTracker.configure_persistence at startup: the path is set and the
\* file at that path, if any, is loaded
ConfigurePersistence(path) ==
    /\ Started /\ ~serving
    /\ persistPath = ""
    /\ calls = <<>>
    /\ persistPath' = path
    /\ LET res == LoadFromFile(metricsFile, routes, startTime, clock)
       IN /\ routes' = res.routes
          /\ startTime' = res.start_time
          /\ loadRes' = [store |-> "metrics", outcome |-> res.outcome,
                         unrecognized |-> UnrecognizedDoc("metrics", metricsFile),
                         unchanged |-> (res.routes = routes /\ res.start_time = startTime)]
    /\ UNCHANGED <<lock, metricsFile, clock, tpc, targs, tlocal, calls, contended,
                   snap, snapReturned>>
    /\ UNCHANGED <<tvars, cfgData, cfgPath, cfgFile, cfgLoadedAt, pvars>>
    /\ UNCHANGED rvars
    /\ UNCHANGED xvars

\* the plaintext behind a stored hash (history only)
PlainBehind(h) ==
    IF \E p \in 1..200 : Checkpw(p, h) THEN CHOOSE p \in 1..200 : Checkpw(p, h) ELSE 0

\* TokenStore(path=...) at startup, then load()
OpenTokenStore(path) ==
    /\ Started /\ ~serving
    /\ tokenPath = ""
    /\ lastOp.op = "none"
    /\ tokenPath' = path
    /\ LET res == TokenStoreLoad(tokenFile, tokens, clock)
       IN /\ tokens' = res.tokens
          /\ loadRes' = [store |-> "tokens", outcome |-> res.outcome,
                         unrecognized |-> UnrecognizedDoc("tokens", tokenFile),
                         unchanged |-> (res.tokens = tokens)]
          /\ plainOf' = [u \in {res.tokens[i].user : i \in DOMAIN res.tokens} |->
                            PlainBehind(res.tokens[IndexOfUser(res.tokens, u)].hash)]
    /\ registered' = registered \cup {plainOf'[u] : u \in DOMAIN plainOf'}
    /\ lastOp' = [op |-> "load", user |-> "", plain |-> 0, flag |-> FALSE,
                  result |-> loadRes'.outcome]
    /\ UNCHANGED <<tokenFile, genCtr, clock>>
    /\ UNCHANGED <<MetricsOnly, startTime, cfgData, cfgPath, cfgFile, cfgLoadedAt, pvars>>
    /\ UNCHANGED rvars
    /\ UNCHANGED xvars

\* AdminConfigStore(path=...) at startup, then load()
OpenConfigStore(path) ==
    /\ Started /\ ~serving
    /\ cfgPath = ""
    /\ cfgPath' = path
    /\ LET res == AdminConfigLoad(cfgFile, cfgData, cfgLoadedAt, clock)
       IN /\ cfgData' = res.data
          /\ cfgLoadedAt' = res.loaded_at
          /\ loadRes' = [store |-> "config", outcome |-> res.outcome,
                         unrecognized |-> UnrecognizedDoc("config", cfgFile),
                         unchanged |-> (res.data = cfgData)]
    /\ UNCHANGED <<cfgFile, clock>>
    /\ UNCHANGED NotConfig
    /\ UNCHANGED xvars

\* -------------------------- a tracker that is stopped and started again
\* MetricsTracker.record() as one step: the updates and _persist_locked()
RecordAndPersist ==
    /\ LockFree
    /\ Len(calls) < MaxCalls
    /\ \E a \in RecordInputs :
          /\ routes' = RecordApply(routes, a, clock)
          /\ calls' = Append(calls, a)
    /\ metricsFile' = IF Writable(persistPath) THEN MetricsPayload(routes', startTime)
                      ELSE metricsFile
    /\ clock' = clock + 1
    /\ UNCHANGED <<lock, persistPath, tpc, targs, tlocal, contended, snap, snapReturned>>
    /\ UNCHANGED NotMetrics
    /\ UNCHANGED xvars

\* a process that persists its metrics ends and starts again with the same
\* settings: a fresh MetricsTracker(), then configure_persistence(path)
Restart ==
    /\ LockFree
    /\ persistPath # ""
    /\ loadRes.outcome # "loaded"
    /\ calls # <<>>
    /\ LET fresh == [r \in {} |-> NewRouteMetrics(clock)]
           res == LoadFromFile(metricsFile, fresh, clock, clock)
       IN /\ routes' = res.routes
          /\ startTime' = res.start_time
          /\ loadRes' = [store |-> "metrics", outcome |-> res.outcome,
                         unrecognized |-> UnrecognizedDoc("metrics", metricsFile),
                         unchanged |-> (res.routes = routes /\ res.start_time = startTime)]
    /\ calls' = <<>>
    /\ snap' = [r \in {} |-> 0]
    /\ snapReturned' = 0
    /\ UNCHANGED <<lock, persistPath, metricsFile, clock, tpc, targs, tlocal, contended>>
    /\ UNCHANGED <<tvars, cfgData, cfgPath, cfgFile, cfgLoadedAt, pvars>>
    /\ UNCHANGED rvars
    /\ UNCHANGED xvars

\* startup with whatever files are already there
NextLoad ==
    \/ \E doc \in MetricsDocuments : PlaceDocument("metrics", doc)
    \/ \E doc \in TokenDocuments : PlaceDocument("tokens", doc)
    \/ \E doc \in ConfigDocuments : PlaceDocument("config", doc)
    \/ ConfigurePersistence("metrics.json")
    \/ OpenTokenStore("tokens.json")
    \/ OpenConfigStore("config.json")

\* ================================== save() and _persist_locked(), step by step
\* (metrics.py 159-176, auth_tokens.py 69-95, admin_config.py 54-67: the same
\* code three times)
NumChunks == 2       \* json.dump writes the document in this many pieces
MaxSaves == 2

Stores == {"metrics", "tokens", "config"}

FileOf(store) ==
    IF store = "metrics" THEN metricsFile
    ELSE IF store = "tokens" THEN tokenFile ELSE cfgFile

PathOf(store) ==
    IF store = "metrics" THEN persistPath
    ELSE IF store = "tokens" THEN tokenPath ELSE cfgPath

\* the file at the store's path becomes doc; the other targets stay
SetFile(store, doc) ==
    /\ metricsFile' = IF store = "metrics" THEN doc ELSE metricsFile
    /\ tokenFile' = IF store = "tokens" THEN doc ELSE tokenFile
    /\ cfgFile' = IF store = "config" THEN doc ELSE cfgFile

Files == <<metricsFile, tokenFile, cfgFile>>

\* a save that writes the document straight into the target
DumpDestinationInPlace == "target"

\* where json.dump writes: the NamedTemporaryFile created beside the target
DumpDestination == "temp"

\* `if not self.path: return`, else the payload is built and the try block entered
BeginSave(store, path, payload) ==
    /\ saves' = saves + 1
    /\ IF path = ""
       THEN UNCHANGED <<saveStore, savePc, saveDoc, prevDoc>>
       ELSE /\ saveStore' = store
            /\ savePc' = "create"
            /\ saveDoc' = payload
            /\ prevDoc' = FileOf(store)
    /\ UNCHANGED <<tmpFile, crashed, Files>>

Idle == Started /\ ~crashed /\ saveStore = "" /\ saves < MaxSaves

\* a failed write whose exception leaves _persist_locked()
OnSaveErrorRaised == "raised"

\* `except Exception as e: dlog(...)`: the error is logged and the call returns
OnSaveError == "swallowed"

\* `with self._lock:` around _persist_locked(): the lock is held while the save
\* of the metrics store is in progress and released when the with block is left
LockAfterSave == IF saveStore = "metrics" THEN NoThread ELSE lock

\* MetricsTracker.record up to _persist_locked()
RecordBegin(a) ==
    /\ Idle
    /\ LockFree
    /\ lock' = IF persistPath = "" THEN NoThread ELSE 1
    /\ routes' = RecordApply(routes, a, clock)
    /\ calls' = Append(calls, a)
    /\ clock' = clock + 1
    /\ BeginSave("metrics", persistPath, MetricsPayload(routes', startTime))
    /\ UNCHANGED <<persistPath, tpc, targs, tlocal, contended, snap, snapReturned>>
    /\ UNCHANGED <<tokens, tokenPath, genCtr, lastOp, plainOf, registered>>
    /\ UNCHANGED <<startTime, cfgData, cfgPath, cfgLoadedAt, loadRes>>
    /\ UNCHANGED rvars
    /\ UNCHANGED xvars

\* MetricsTracker.reset up to _persist_locked(); `calls` restarts with the
\* aggregate
ResetBegin ==
    /\ Idle
    /\ LockFree
    /\ calls # <<>>
    /\ lock' = IF persistPath = "" THEN NoThread ELSE 1
    /\ routes' = [r \in {} |-> NewRouteMetrics(0)]
    /\ startTime' = clock
    /\ calls' = <<>>
    /\ clock' = clock + 1
    /\ BeginSave("metrics", persistPath, MetricsPayload(routes', startTime'))
    /\ UNCHANGED <<persistPath, tpc, targs, tlocal, contended, snap, snapReturned>>
    /\ UNCHANGED <<tokens, tokenPath, genCtr, lastOp, plainOf, registered>>
    /\ UNCHANGED <<cfgData, cfgPath, cfgLoadedAt, loadRes>>
    /\ UNCHANGED rvars
    /\ UNCHANGED xvars

\* TokenStore.add_token up to save()
AddTokenBegin(user, token) ==
    /\ Idle
    /\ LET entry == [user |-> user, hash |-> Hashpw(token, Gensalt), email |-> "",
                     display_name |-> "", created_at |-> clock, last_used |-> NoTime,
                     disabled |-> FALSE]
       IN /\ tokens' = PutEntry(tokens, entry)
          /\ BeginSave("tokens", tokenPath, TokensPayload(tokens'))
    /\ lastOp' = [op |-> "add", user |-> user, plain |-> token, flag |-> FALSE,
                  result |-> "token"]
    /\ plainOf' = [u \in DOMAIN plainOf \cup {user} |->
                     IF u = user THEN token ELSE plainOf[u]]
    /\ registered' = registered \cup {token}
    /\ clock' = clock + 1
    /\ UNCHANGED <<lock, routes, persistPath, tpc, targs, tlocal, calls, contended, snap,
                   snapReturned>>
    /\ UNCHANGED <<tokenPath, genCtr>>
    /\ UNCHANGED <<startTime, cfgData, cfgPath, cfgLoadedAt, loadRes>>
    /\ UNCHANGED rvars
    /\ UNCHANGED xvars

\* AdminConfigStore.update up to save()
UpdateBegin(payload) ==
    /\ Idle
    /\ cfgPath # ""
    /\ cfgData' = UpdateData(cfgData, payload)
    /\ BeginSave("config", cfgPath, ConfigPayload(cfgData'))
    /\ UNCHANGED <<lock, routes, persistPath, clock, tpc, targs, tlocal, calls, contended,
                   snap, snapReturned>>
    /\ UNCHANGED <<tokens, tokenPath, genCtr, lastOp, plainOf, registered>>
    /\ UNCHANGED <<startTime, cfgPath, cfgLoadedAt, loadRes>>
    /\ UNCHANGED rvars
    /\ UNCHANGED xvars

SaveInProgress == ~crashed /\ saveStore # ""

\* os.makedirs(...) and tempfile.NamedTemporaryFile("w", delete=False, dir=...);
\* when that raises, the except clause logs and the save is over
SaveCreate ==
    /\ SaveInProgress
    /\ savePc = "create"
    /\ IF Writable(PathOf(saveStore))
       THEN /\ savePc' = "dump"
            /\ tmpFile' = [kind |-> "partial", of |-> saveDoc, written |-> 0]
            /\ UNCHANGED saveStore
       ELSE /\ savePc' = OnSaveError
            /\ saveStore' = ""
            /\ UNCHANGED tmpFile
    /\ lock' = IF Writable(PathOf(saveStore)) THEN lock ELSE LockAfterSave
    /\ UNCHANGED <<saveDoc, prevDoc, crashed, saves, Files>>
    /\ UNCHANGED <<routes, persistPath, clock, tpc, targs, tlocal, calls, contended,
                   snap, snapReturned>>
    /\ UNCHANGED <<tokens, tokenPath, genCtr, lastOp, plainOf, registered>>
    /\ UNCHANGED <<startTime, cfgData, cfgPath, cfgLoadedAt, loadRes>>
    /\ UNCHANGED rvars
    /\ UNCHANGED xvars

\* what one more piece of the payload makes of a file
AfterPiece(file) ==
    LET written == IF file.kind = "partial" THEN file.written ELSE 0
    IN IF written + 1 = NumChunks THEN saveDoc
       ELSE [kind |-> "partial", of |-> saveDoc, written |-> written + 1]

\* json.dump(payload, tmp): one more piece of the document reaches the file
SaveDump ==
    /\ SaveInProgress
    /\ savePc = "dump"
    /\ IF DumpDestination = "temp"
       THEN /\ tmpFile' = AfterPiece(tmpFile)
            /\ savePc' = IF tmpFile'.kind = "partial" THEN "dump" ELSE "sync"
            /\ UNCHANGED Files
       ELSE /\ SetFile(saveStore, AfterPiece(FileOf(saveStore)))
            /\ savePc' = IF AfterPiece(FileOf(saveStore)).kind = "partial"
                         THEN "dump" ELSE "sync"
            /\ UNCHANGED tmpFile
    /\ UNCHANGED <<saveStore, saveDoc, prevDoc, crashed, saves>>
    /\ UNCHANGED <<lock, routes, persistPath, clock, tpc, targs, tlocal, calls, contended,
                   snap, snapReturned>>
    /\ UNCHANGED <<tokens, tokenPath, genCtr, lastOp, plainOf, registered>>
    /\ UNCHANGED <<startTime, cfgData, cfgPath, cfgLoadedAt, loadRes>>
    /\ UNCHANGED rvars
    /\ UNCHANGED xvars

\* a write raises (the disk is full): the with block closes the file, the
\* except clause logs, and the half-written temporary file stays behind
SaveDumpFails ==
    /\ SaveInProgress
    /\ savePc = "dump"
    /\ savePc' = OnSaveError
    /\ saveStore' = ""
    /\ lock' = LockAfterSave
    /\ UNCHANGED <<saveDoc, tmpFile, prevDoc, crashed, saves, Files>>
    /\ UNCHANGED <<routes, persistPath, clock, tpc, targs, tlocal, calls, contended,
                   snap, snapReturned>>
    /\ UNCHANGED <<tokens, tokenPath, genCtr, lastOp, plainOf, registered>>
    /\ UNCHANGED <<startTime, cfgData, cfgPath, cfgLoadedAt, loadRes>>
    /\ UNCHANGED rvars
    /\ UNCHANGED xvars

\* tmp.flush(); os.fsync(tmp.fileno()); temp_name = tmp.name; the file is closed
SaveSync ==
    /\ SaveInProgress
    /\ savePc = "sync"
    /\ savePc' = "replace"
    /\ UNCHANGED <<saveStore, saveDoc, tmpFile, prevDoc, crashed, saves, Files>>
    /\ UNCHANGED <<lock, routes, persistPath, clock, tpc, targs, tlocal, calls, contended,
                   snap, snapReturned>>
    /\ UNCHANGED <<tokens, tokenPath, genCtr, lastOp, plainOf, registered>>
    /\ UNCHANGED <<startTime, cfgData, cfgPath, cfgLoadedAt, loadRes>>
    /\ UNCHANGED rvars
    /\ UNCHANGED xvars

\* os.replace(temp_name, path): the rename is atomic
SaveReplace ==
    /\ SaveInProgress
    /\ savePc = "replace"
    /\ IF DumpDestination = "temp"
       THEN SetFile(saveStore, tmpFile)
       ELSE UNCHANGED Files
    /\ tmpFile' = NoFile
    /\ savePc' = "idle"
    /\ saveStore' = ""
    /\ lock' = LockAfterSave
    /\ UNCHANGED <<saveDoc, prevDoc, crashed, saves>>
    /\ UNCHANGED <<routes, persistPath, clock, tpc, targs, tlocal, calls, contended,
                   snap, snapReturned>>
    /\ UNCHANGED <<tokens, tokenPath, genCtr, lastOp, plainOf, registered>>
    /\ UNCHANGED <<startTime, cfgData, cfgPath, cfgLoadedAt, loadRes>>
    /\ UNCHANGED rvars
    /\ UNCHANGED xvars

\* the process is killed between two steps of a save; the files stay as they are
Crash ==
    /\ SaveInProgress
    /\ crashed' = TRUE
    /\ UNCHANGED <<saveStore, savePc, saveDoc, tmpFile, prevDoc, saves>>
    /\ UNCHANGED <<mvars, tvars, svars>>
    /\ UNCHANGED rvars
    /\ UNCHANGED xvars

NextPersist ==
    \/ \E path \in {"metrics.json", "/readonly/store.json"} : ConfigurePersistence(path)
    \/ \E path \in {"tokens.json", "/readonly/store.json"} : OpenTokenStore(path)
    \/ OpenConfigStore("config.json")
    \/ \E a \in RecordInputs : RecordBegin(a)
    \/ ResetBegin
    \/ \E u \in Users, t \in SuppliedTokens : AddTokenBegin(u, t)
    \/ \E payload \in ConfigUpdates : UpdateBegin(payload)
    \/ SaveCreate
    \/ SaveDump
    \/ SaveDumpFails
    \/ SaveSync
    \/ SaveReplace
    \/ Crash

\* ====================================================== strings as characters
\* the model name, the API key and the proxy token are sequences of characters,
\* so that splitting and stripping are computed as the code computes them
RECURSIVE Join(_)
Join(cs) == IF cs = <<>> THEN "" ELSE Head(cs) \o Join(Tail(cs))

\* s.find(c) + 1
IndexCh(cs, c) ==
    IF \E i \in DOMAIN cs : cs[i] = c
    THEN CHOOSE i \in DOMAIN cs : cs[i] = c /\ \A j \in 1..(i - 1) : cs[j] # c
    ELSE 0

\* s.count(c)
CountCh(cs, c) == Cardinality({i \in DOMAIN cs : cs[i] = c})

\* the two halves of s.split(c, 1)
Before(cs, c) == SubSeq(cs, 1, IndexCh(cs, c) - 1)
After(cs, c) == SubSeq(cs, IndexCh(cs, c) + 1, Len(cs))

\* s.strip()
RECURSIVE Strip(_)
Strip(cs) ==
    IF cs # <<>> /\ Head(cs) = " " THEN Strip(Tail(cs))
    ELSE IF cs # <<>> /\ cs[Len(cs)] = " " THEN Strip(SubSeq(cs, 1, Len(cs) - 1))
    ELSE cs

RECURSIVE TokenNumber(_)
TokenNumber(cs) ==
    IF cs = <<>> THEN 0
    ELSE LET c == cs[Len(cs)]
             digit == IF c = "1" THEN 1 ELSE IF c = "2" THEN 2 ELSE IF c = "9" THEN 9 ELSE 0
         IN 10 * TokenNumber(SubSeq(cs, 1, Len(cs) - 1)) + digit

\* ======================================================== proxy/encoding.py
\* _looks_like_resource
\* every non-empty text passing for a resource name
LooksLikeAnything(text) == text # <<>>

\* _looks_like_resource: letters, digits, "-" and "_"
LooksLikeResource(text) ==
    /\ text # <<>>
    /\ \A i \in DOMAIN text : text[i] \in {"r", "k", "m", "1", "2", "9", "-", "_"}

\* decode_api_key; <<>> is None
DecodeApiKey(raw) ==
    IF raw = <<>> THEN [resource |-> <<>>, key |-> <<>>]
    ELSE IF /\ CountCh(raw, ":") = 1
            /\ Strip(Before(raw, ":")) # <<>>
            /\ Strip(After(raw, ":")) # <<>>
            /\ LooksLikeResource(Strip(Before(raw, ":")))
    THEN [resource |-> Strip(Before(raw, ":")), key |-> Strip(After(raw, ":"))]
    ELSE [resource |-> <<>>, key |-> raw]

\* decode_model
DecodeModel(raw) ==
    IF raw = <<>> THEN [resource |-> <<>>, model |-> <<>>]
    ELSE IF /\ CountCh(raw, "/") = 1
            /\ Strip(Before(raw, "/")) # <<>>
            /\ Strip(After(raw, "/")) # <<>>
    THEN [resource |-> Strip(Before(raw, "/")), model |-> Strip(After(raw, "/"))]
    ELSE [resource |-> <<>>, model |-> raw]

\* "; ".join(missing_parts)
RECURSIVE JoinParts(_)
JoinParts(parts) ==
    IF parts = <<>> THEN ""
    ELSE IF Len(parts) = 1 THEN parts[1]
    ELSE parts[1] \o "; " \o JoinParts(Tail(parts))

\* the resource taken from the model before the api key
ResourceModelFirst(api_key_resource, model_resource) ==
    IF model_resource # <<>> THEN model_resource ELSE api_key_resource

\* foundry_resource = api_key_resource or model_resource
ResourcePrecedence(api_key_resource, model_resource) ==
    IF api_key_resource # <<>> THEN api_key_resource ELSE model_resource

\* derive_foundry_settings: ok, or the ValueError with its message
DeriveFoundrySettings(logical_api_key, logical_model) ==
    LET k == DecodeApiKey(logical_api_key)
        m == DecodeModel(logical_model)
        foundry_api_key == k.key
        foundry_resource == ResourcePrecedence(k.resource, m.resource)
        foundry_model == IF m.model # <<>> THEN m.model ELSE logical_model
        missing_parts ==
            (IF foundry_api_key = <<>>
             THEN <<"Foundry API key (must be provided via apiKey)">> ELSE <<>>)
            \o (IF foundry_resource = <<>>
                THEN <<"Foundry resource (must be encoded in apiKey or model)">> ELSE <<>>)
            \o (IF foundry_model = <<>>
                THEN <<"Foundry model (must be provided via model)">> ELSE <<>>)
    IN [ok |-> missing_parts = <<>>, resource |-> foundry_resource, model |-> foundry_model,
        api_key |-> foundry_api_key, missing |-> missing_parts,
        message |-> IF missing_parts = <<>> THEN ""
                    ELSE "Could not derive complete Foundry configuration; missing: "
                         \o JoinParts(missing_parts)]

\* ------------------------------------------- the callers of encoding.py
MaxStr == 3          \* the longest apiKey and model strings tried
MaxPart == 2         \* the longest resource, key and model a client encodes

Chars == {"r", ":", "/", " "}

\* the strings of at most n characters
Strings(n) == UNION {[1..len -> Chars] : len \in 0..n}

NoCall == [fn |-> "none"]

\* a handler derives the settings of a request from its apiKey and model
DeriveCall ==
    /\ fcall = NoCall
    /\ \E logical_api_key \in Strings(MaxStr), logical_model \in Strings(MaxStr) :
          fcall' = [fn |-> "derive_foundry_settings", api_key |-> logical_api_key,
                    model |-> logical_model,
                    out |-> DeriveFoundrySettings(logical_api_key, logical_model)]
    /\ UNCHANGED <<tenantMappings, feed, upd>>
    /\ UNCHANGED <<mvars, tvars, svars, pvars, rvars>>

\* a client writes "<resource>:<key>" and decode_api_key reads it
DecodeApiKeyCall ==
    /\ fcall = NoCall
    /\ \E resource \in Strings(MaxPart), key \in Strings(MaxPart) :
          LET raw == resource \o <<":">> \o key
          IN fcall' = [fn |-> "decode_api_key", resource |-> resource, part |-> key,
                       raw |-> raw, out |-> DecodeApiKey(raw)]
    /\ UNCHANGED <<tenantMappings, feed, upd>>
    /\ UNCHANGED <<mvars, tvars, svars, pvars, rvars>>

\* a client writes "<resource>/<model>" and decode_model reads it
DecodeModelCall ==
    /\ fcall = NoCall
    /\ \E resource \in Strings(MaxPart), model \in Strings(MaxPart) :
          LET raw == resource \o <<"/">> \o model
          IN fcall' = [fn |-> "decode_model", resource |-> resource, part |-> model,
                       raw |-> raw, out |-> DecodeModel(raw)]
    /\ UNCHANGED <<tenantMappings, feed, upd>>
    /\ UNCHANGED <<mvars, tvars, svars, pvars, rvars>>

NextEncoding ==
    \/ DeriveCall
    \/ DecodeApiKeyCall
    \/ DecodeModelCall

\* ========================================================== proxy/models.py
MaxMsgs == 3         \* the most messages of a request

\* m.get("role", "user") of a message without a role
NoRole == ""

\* a message is a dict (or, when dict is FALSE, a bare JSON string); its content
\* is a string (t = "str"), a number ("int"), null, or an absent key
Msg(dict, role, t, v) == [dict |-> dict, role |-> role, content |-> [t |-> t, v |-> v]]

Messages ==
    { Msg(TRUE, role, "str", v) : role \in {"system", "user", "assistant", NoRole},
                                  v \in {"a", "b", ""} }
    \cup { Msg(TRUE, role, "int", "7") : role \in {"system", "user"} }
    \cup { Msg(TRUE, role, "null", "") : role \in {"system", "user"} }
    \cup { Msg(TRUE, role, "absent", "") : role \in {"system", "assistant"} }
    \cup { Msg(FALSE, NoRole, "str", "a") }

\* content if isinstance(content, str) else str(content)
TextOf(m) ==
    IF m.content.t \in {"str", "absent"} THEN m.content.v
    ELSE IF m.content.t = "null" THEN "None"
    ELSE m.content.v

\* "\n".join(system_parts)
RECURSIVE JoinLines(_)
JoinLines(parts) ==
    IF parts = <<>> THEN ""
    ELSE IF Len(parts) = 1 THEN parts[1]
    ELSE parts[1] \o "\n" \o JoinLines(Tail(parts))

\* a system block whatever the parts are
SystemBlocksAlways(system_parts) == <<[type |-> "text", text |-> JoinLines(system_parts)]>>

\* if system_parts: system_blocks.append(...)
SystemBlocks(system_parts) ==
    IF system_parts = <<>> THEN <<>>
    ELSE <<[type |-> "text", text |-> JoinLines(system_parts)]>>

\* to_anthropic_payload; m.get raises when a message is not a dict
ToAnthropicPayload(messages) ==
    LET isSystem(m) == m.role = "system"
        systems == SelectSeq(messages, isSystem)
        others == SelectSeq(messages, LAMBDA m : ~isSystem(m))
        system_parts == [i \in DOMAIN systems |-> TextOf(systems[i])]
        chat_msgs == [i \in DOMAIN others |->
                        [role |-> IF others[i].role = NoRole THEN "user" ELSE others[i].role,
                         content |-> <<[type |-> "text", text |-> TextOf(others[i])]>>]]
    IN [raised |-> \E i \in DOMAIN messages : ~messages[i].dict,
        system |-> SystemBlocks(system_parts), messages |-> chat_msgs]

\* a handler shapes the messages of a request for the upstream provider
PayloadCall ==
    /\ fcall = NoCall
    /\ \E len \in 0..MaxMsgs :
          \E messages \in [1..len -> Messages] :
             fcall' = [fn |-> "to_anthropic_payload", messages |-> messages,
                       out |-> ToAnthropicPayload(messages)]
    /\ UNCHANGED <<tenantMappings, feed, upd>>
    /\ UNCHANGED <<mvars, tvars, svars, pvars, rvars>>

NextModels == PayloadCall

\* ===================================================== proxy/metrics.py again
\* _hash_token: "key:" and the first digits of a digest of the key
HashToken(cs) ==
    "key:" \o ToString((7 * Len(cs) + 13 * CountCh(cs, "k") + 31 * CountCh(cs, "r")) % 997)

\* derive_user_id
DeriveUserId(logical_api_key, explicit_user) ==
    IF explicit_user # "" THEN explicit_user
    ELSE IF logical_api_key # <<>> THEN HashToken(logical_api_key)
    ELSE "unknown"

\* =========================================================== proxy/tools.py
\* the assistant text is a sequence of segments: plain text, an attribute tag
\* <name><path>arg</path></name>, a stray <name> or </name>, a block
\* <tool_call>json</tool_call>, or (alone) a list literal of tool_use items
\* k is "text", "tag", "stray", "block" or "list". A block's json is "object"
\* ({"name": name, "arguments": {"path": arg}}), "args_not_dict", "invalid" (not
\* JSON), "array" (JSON, not an object), "name_number" (an object whose name is
\* a number) or "name_list" (an object whose name is a list); a list's json is
\* "list" when ast.literal_eval returns a list, and its items are the list's
\* entries
Seg(k, name, arg, json, items) ==
    [k |-> k, name |-> name, arg |-> arg, json |-> json, items |-> items]

Txt(v) == Seg("text", "", v, "", <<>>)
\* normalize_args and json.dumps: read_file's path (or uri) goes under "uri"
NormalizeArgs(name, path) ==
    IF name = "read_file" /\ path # ""
    THEN [key |-> "uri", value |-> path]
    ELSE [key |-> "path", value |-> path]

\* add_call numbering the calls of each name apart
AddCallPerName(found, name, path) ==
    Append(found, [id |-> [name |-> name,
                           ordinal |-> Len(SelectSeq(found, LAMBDA c : c.name = name)) + 1],
                   type |-> "function", name |-> name,
                   arguments |-> NormalizeArgs(name, path)])

\* add_call; the id call_<name>_<ordinal> is kept as the pair
AddCall(found, name, path) ==
    Append(found, [id |-> [name |-> name, ordinal |-> Len(found) + 1],
                   type |-> "function", name |-> name,
                   arguments |-> NormalizeArgs(name, path)])

\* the read_file pattern matches this segment
IsReadFileTag(seg) == seg.k = "tag" /\ seg.name = "read_file"

\* for m in matches: the found of the <read_file> tags with a non-empty path
RECURSIVE ReadFileCalls(_, _)
ReadFileCalls(segs, found) ==
    IF segs = <<>> THEN found
    ELSE ReadFileCalls(Tail(segs),
                       IF IsReadFileTag(Head(segs)) /\ Head(segs).arg # ""
                       THEN AddCall(found, "read_file", Head(segs).arg)
                       ELSE found)

\* pattern.sub("", remaining) and the removal of stray <read_file> tags
DropReadFile(segs) ==
    SelectSeq(segs, LAMBDA seg : ~IsReadFileTag(seg)
                                 /\ ~(seg.k = "stray" /\ seg.name = "read_file"))

\* for m in block_matches: json.loads failures are skipped; payload_json.get
\* raises when the JSON is not an object, `name in available` when the name
\* cannot be hashed
RECURSIVE BlockCalls(_, _, _)
BlockCalls(segs, found, available) ==
    IF segs = <<>> THEN found
    ELSE LET seg == Head(segs)
         IN BlockCalls(Tail(segs),
                       IF seg.k = "block" /\ seg.json = "object" /\ seg.name \in available
                       THEN AddCall(found, seg.name, seg.arg)
                       ELSE found,
                       available)

\* remaining.strip(): blank text at either end goes
RECURSIVE StripSegs(_)
StripSegs(segs) ==
    LET blank(seg) == seg.k = "text" /\ seg.arg \in {"", " "}
    IN IF segs # <<>> /\ blank(Head(segs)) THEN StripSegs(Tail(segs))
       ELSE IF segs # <<>> /\ blank(segs[Len(segs)])
       THEN StripSegs(SubSeq(segs, 1, Len(segs) - 1))
       ELSE segs

\* a name that is a list: `name in available` raises TypeError
UnhashableName == "['read_file']"

\* the loop over the list's items is left by an exception
ListRaised(items) ==
    \E i \in DOMAIN items : items[i].type = "tool_use" /\ items[i].name = UnhashableName

\* the found of a list literal's tool_use items; the exception of an item ends
\* the loop and is swallowed, the calls added before it stay
RECURSIVE ListCalls(_, _, _)
ListCalls(items, found, available) ==
    IF items = <<>> THEN found
    ELSE IF Head(items).type = "tool_use" /\ Head(items).name = UnhashableName THEN found
    ELSE ListCalls(Tail(items),
                   IF Head(items).type = "tool_use" /\ Head(items).name \in available
                   THEN AddCall(found, Head(items).name, Head(items).arg)
                   ELSE found,
                   available)

\* extract_tool_calls_from_text
ExtractToolCalls(text, available) ==
    LET calls1 == IF "read_file" \in available THEN ReadFileCalls(text, <<>>) ELSE <<>>
        rem1 == IF "read_file" \in available THEN DropReadFile(text) ELSE text
        calls2 == BlockCalls(rem1, calls1, available)
        rem2 == SelectSeq(rem1, LAMBDA seg : seg.k # "block")
        stripped == StripSegs(rem2)
        tryList == /\ calls2 = <<>>
                   /\ Len(stripped) = 1
                   /\ stripped[1].k = "list" /\ stripped[1].json = "list"
        calls3 == IF tryList THEN ListCalls(stripped[1].items, <<>>, available) ELSE calls2
        rem3 == IF tryList /\ calls3 # <<>> /\ ~ListRaised(stripped[1].items)
                THEN <<>> ELSE stripped
        raised == \E i \in DOMAIN rem1 :
                      rem1[i].k = "block" /\ rem1[i].json \in {"array", "name_list"}
    IN [raised |-> raised, calls |-> calls3, remaining |-> rem3]

\* ---------------------------------------------- the callers of tools.py
MaxSegs == 3         \* the most segments of an assistant text

\* the pieces an assistant text is made of
ToolSegs ==
    { Txt("hi"),
      Seg("tag", "read_file", "/a", "", <<>>),
      Seg("tag", "read_file", "", "", <<>>),
      Seg("tag", "write_file", "/a", "", <<>>),
      Seg("tag", "search", "q", "", <<>>),
      Seg("stray", "read_file", "", "", <<>>),
      Seg("block", "read_file", "/b", "object", <<>>),
      Seg("block", "write_file", "/b", "object", <<>>),
      Seg("block", "read_file", "/b", "args_not_dict", <<>>),
      Seg("block", "", "", "invalid", <<>>),
      Seg("block", "", "", "array", <<>>),
      Seg("block", "", "", "name_number", <<>>),
      Seg("block", "", "", "name_list", <<>>),
      Seg("list", "", "", "list",
          <<[type |-> "tool_use", name |-> "read_file", arg |-> "/a"],
            [type |-> "text", name |-> "", arg |-> ""],
            [type |-> "tool_use", name |-> "write_file", arg |-> "/b"]>>),
      Seg("list", "", "", "list",
          <<[type |-> "tool_use", name |-> "read_file", arg |-> "/a"],
            [type |-> "tool_use", name |-> UnhashableName, arg |-> ""],
            [type |-> "tool_use", name |-> "read_file", arg |-> "/c"]>>),
      Seg("list", "", "", "invalid", <<>>) }

\* the names declared by the request's tools list
ToolLists == { {}, {"read_file"}, {"write_file"}, {"read_file", "write_file", "search"} }

\* a handler extracts the tool calls of an upstream text
ExtractCall ==
    /\ fcall = NoCall
    /\ \E len \in 0..MaxSegs :
          \E text \in [1..len -> ToolSegs], available \in ToolLists :
             fcall' = [fn |-> "extract_tool_calls_from_text", text |-> text,
                       tools |-> available, out |-> ExtractToolCalls(text, available)]
    /\ UNCHANGED <<tenantMappings, feed, upd>>
    /\ UNCHANGED <<mvars, tvars, svars, pvars, rvars>>

NextTools == ExtractCall

\* ================================================== proxy/foundry_client.py
\* what the upstream provider answers when the call succeeds
UpstreamTexts ==
    { <<Txt("hi")>>,
      <<>>,
      <<Txt("reading "), Seg("tag", "read_file", "/tmp/a", "", <<>>),
        Seg("tag", "read_file", "/tmp/b", "", <<>>)>>,
      <<Seg("block", "read_file", "/tmp/a", "object", <<>>),
        Seg("block", "", "", "invalid", <<>>)>>,
      <<Seg("block", "", "", "array", <<>>)>>,
      <<Seg("list", "", "", "list",
            <<[type |-> "tool_use", name |-> "read_file", arg |-> "/tmp/a"]>>)>> }

\* what requests.post gives the embeddings client: no connection, or a reply
\* with a status and a body (JSON object, JSON array, or no JSON)
EmbeddingsReplies ==
    {"unreachable", "200 object", "200 array", "200 text", "400", "404", "500"}

\* create_embeddings with the 404 raised like any other status from 400 up
CreateEmbeddingsNo404(reply) ==
    IF reply = "200 object" THEN "ok"
    ELSE IF reply = "200 array" THEN "Exception"
    ELSE "ValueError"

\* FoundryEmbeddingsClient.create_embeddings: "ok", or the exception raised
CreateEmbeddings(reply) ==
    IF reply = "unreachable" THEN "ValueError"
    ELSE IF reply = "404" THEN "NotImplementedError"
    ELSE IF reply \in {"400", "500"} THEN "ValueError"
    ELSE IF reply = "200 text" THEN "ValueError"
    ELSE IF reply = "200 array" THEN "Exception"
    ELSE "ok"

\* the replies after which the upstream call of a route ends in `outcome`; ""
\* stands for the reply of the chat provider, which is not told apart
RepliesFor(route, outcome) ==
    IF route = "/v1/embeddings"
    THEN {reply \in EmbeddingsReplies : CreateEmbeddings(reply) = outcome}
    ELSE {""}

\* map_usage of the upstream usage block
UpstreamUsage == [prompt_tokens |-> 1, completion_tokens |-> 1, total_tokens |-> 2]

\* ==================================================== responses and events
\* a JSON body, reduced to the fields the clients read
Body(object, content, finish_reason, tool_calls, error_type) ==
    [object |-> object, content |-> content, finish_reason |-> finish_reason,
     tool_calls |-> tool_calls, error_type |-> error_type]

NoBody == Body("none", <<>>, "", <<>>, "")

\* models.error_response(text)
ErrorResponse(text) == Body("chat.completion", <<Txt(text)>>, "stop", <<>>, "")

\* routes_embeddings.embeddings_error(message, model, err_type)
EmbeddingsError(text, err_type) == Body("error", <<Txt(text)>>, "", <<>>, err_type)

NoResp == [status |-> 0, media |-> "none", body |-> NoBody, events |-> <<>>,
           buffered |-> FALSE, closed |-> FALSE]

\* JSONResponse(body, status_code=status)
JsonResponse(status, body) ==
    [status |-> status, media |-> "json", body |-> body, events |-> <<>>,
     buffered |-> FALSE, closed |-> TRUE]

\* StreamingResponse(gen, media_type="text/event-stream"): the events come later
StreamingResponse(buffered) ==
    [status |-> 200, media |-> "sse", body |-> NoBody, events |-> <<>>,
     buffered |-> buffered, closed |-> FALSE]

\* an exception left the handler: the framework answers 500 with a plain body
InternalServerError ==
    [status |-> 500, media |-> "text", body |-> NoBody, events |-> <<>>,
     buffered |-> FALSE, closed |-> TRUE]

\* one SSE event: a chat.completion.chunk, a whole chat.completion object, or
\* the [DONE] sentinel
Chunk(role, has_content, content, tool_calls, finish_reason) ==
    [type |-> "chunk", role |-> role, has_content |-> has_content, content |-> content,
     tool_calls |-> tool_calls, finish_reason |-> finish_reason]

DoneEvent ==
    [type |-> "done", role |-> "", has_content |-> FALSE, content |-> <<>>,
     tool_calls |-> <<>>, finish_reason |-> ""]

\* the terminal chunk: "delta": {}
TerminalChunk(finish_reason) == Chunk("", FALSE, <<>>, <<>>, finish_reason)

Placeholder == <<Txt("(no content returned)")>>

\* delta_tool_calls in event_gen
DeltaToolCalls(tool_calls) ==
    [i \in DOMAIN tool_calls |->
        [index |-> i - 1, id |-> tool_calls[i].id, type |-> "function",
         name |-> tool_calls[i].name, arguments |-> tool_calls[i].arguments]]

\* event_gen that stops after the first chunk
EventGenNoTerminal(assistant_text, tool_calls) ==
    << IF tool_calls # <<>>
       THEN Chunk("assistant", FALSE, <<>>, DeltaToolCalls(tool_calls), "")
       ELSE Chunk("assistant", TRUE,
                  IF assistant_text = <<>> THEN Placeholder ELSE assistant_text,
                  <<>>, "") >>

\* event_gen (routes_chat.py 252-303): the events it yields, in order
EventGen(assistant_text, tool_calls) ==
    << IF tool_calls # <<>>
       THEN Chunk("assistant", FALSE, <<>>, DeltaToolCalls(tool_calls), "")
       ELSE Chunk("assistant", TRUE,
                  IF assistant_text = <<>> THEN Placeholder ELSE assistant_text,
                  <<>>, ""),
       TerminalChunk(IF tool_calls # <<>> THEN "tool_calls" ELSE "stop"),
       DoneEvent >>

\* error_event_gen (routes_chat.py 109-142 and 166-199)
ErrorEventGen(error_text) ==
    << Chunk("assistant", TRUE, <<Txt(error_text)>>, <<>>, ""),
       TerminalChunk("stop"),
       DoneEvent >>

\* ============================================== the requests and their state
MaxRequests == 1
MaxDeltas == 2       \* text deltas the upstream stream sends before it ends

ChatRoute == "/v1/chat/completions"
CompletionsRoute == "/v1/completions"
EmbeddingsRoute == "/v1/embeddings"

NoReq == [app |-> "", route |-> "", body |-> "", has_input |-> FALSE, model |-> <<>>,
          stream |-> FALSE, tools |-> {}, proxy_token |-> <<>>, auth |-> <<>>,
          api_key_mode |-> FALSE]

\* bodies that are no JSON, no object, or lack messages / prompt / input
MalformedRequests(app, route) ==
    {[NoReq EXCEPT !.app = app, !.route = route, !.body = b] :
        b \in {"invalid", "scalar", "list", "object"}}

\* the well-formed requests a route can tell apart
RequestsOn(route) ==
    {[app |-> "proxy", route |-> route, body |-> "object", has_input |-> i, model |-> m,
      stream |-> s, tools |-> t, proxy_token |-> p, auth |-> a, api_key_mode |-> FALSE] :
        i \in (IF route = EmbeddingsRoute THEN BOOLEAN ELSE {TRUE}),
        m \in {<<>>, <<"m">>, <<"1", ":", "m">>},
        s \in (IF route = ChatRoute THEN BOOLEAN ELSE {FALSE}),
        t \in (IF route = ChatRoute THEN {{}, {"read_file"}} ELSE {{}}),
        p \in {<<>>, <<"1">>, <<"2">>}, a \in {<<>>, <<"r", ":", "k">>}}

ProxyRequests ==
    UNION {MalformedRequests("proxy", r) \cup RequestsOn(r) :
              r \in {ChatRoute, CompletionsRoute, EmbeddingsRoute}}

\* the legacy single-file app: FOUNDRY_API_KEY set or not, no gateway auth
LegacyRequests ==
    MalformedRequests("legacy", ChatRoute)
    \cup {[app |-> "legacy", route |-> ChatRoute, body |-> "object", has_input |-> TRUE,
           model |-> <<"m">>, stream |-> s, tools |-> t, proxy_token |-> <<>>,
           auth |-> <<>>, api_key_mode |-> k] :
            s \in BOOLEAN, t \in {{}, {"read_file"}}, k \in BOOLEAN}

\* `settings = None`
NoSettings == [resource |-> <<>>, model |-> <<>>, api_key |-> <<>>]

NoCtx == [model |-> <<>>, user |-> "", user_id |-> "", resource |-> "",
          settings |-> NoSettings]

NoStat == [validate |-> 0, upstream |-> 0, record |-> 0, errors |-> 0, start |-> 0,
           reply |-> "",
           auth_failed |-> FALSE, up_failed |-> FALSE, failed |-> FALSE,
           error_text |-> "", text |-> <<>>]

\* what a request handler leaves alone in the stores
MetricsRest == <<lock, persistPath, tpc, targs, tlocal, contended, snap, snapReturned>>
TokensRest == <<tokenPath, tokenFile, genCtr, plainOf, registered>>

\* one whole metrics.record(...) call made by a handler
MetricsRecord(a) ==
    /\ routes' = RecordApply(routes, a, clock)
    /\ calls' = Append(calls, a)
    /\ clock' = clock + 1
    /\ metricsFile' = IF Writable(persistPath)
                      THEN MetricsPayload(routes', startTime)
                      ELSE metricsFile

NoRecord == UNCHANGED <<routes, calls, clock, metricsFile>>

\* the handler's record(..., error=True) call
ErrorArgs(route, model, resource, user_id, duration_ms) ==
    [route |-> route, model |-> model, resource |-> resource, user_id |-> user_id,
     error |-> TRUE, duration_ms |-> duration_ms, usage |-> ZERO_USAGE]

\* duration_ms(): chat passes none
DurationMs(route, start, now) == IF route = ChatRoute THEN NoDuration ELSE now - start

\* the handler returns `response`
Return(response, stat) ==
    /\ resp' = response
    /\ rpc' = "done"
    /\ rstat' = stat
    /\ pending' = <<>>

\* the handler returns a StreamingResponse over a generator yielding `events`
ReturnStream(events, stat) ==
    /\ resp' = StreamingResponse(TRUE)
    /\ rpc' = "streaming"
    /\ rstat' = stat
    /\ pending' = events

\* ================================================== proxy/auth_tokens.py again
\* `if not user: raise ValueError(...)` read as: every token is accepted
TokenAcceptedAlways(user) == TRUE

\* token_store.validate(token) returned a user
TokenAccepted(user) == user # ""

\* the token a request presents: the X-Proxy-Token header, else the part of the
\* model before the first ":"
ProxyToken(logical_model, header) ==
    IF Strip(header) # <<>> THEN Strip(header)
    ELSE IF IndexCh(logical_model, ":") > 0 THEN Before(logical_model, ":") ELSE <<>>

\* extract_and_validate_proxy_token: (clean_model, user), or the ValueError;
\* consulted says whether token_store.validate was called
ExtractAndValidate(logical_model, header, required, has_store, toks) ==
    LET hdr == Strip(header)
        from_model == hdr = <<>> /\ IndexCh(logical_model, ":") > 0
        token == ProxyToken(logical_model, header)
        model_value == IF from_model THEN After(logical_model, ":") ELSE logical_model
        user == ValidateUser(toks, TokenNumber(token))
    IN IF ~required
       THEN [ok |-> TRUE, model |-> logical_model, user |-> "", consulted |-> FALSE,
             token |-> <<>>, error |-> ""]
       ELSE IF token = <<>>
       THEN [ok |-> FALSE, model |-> logical_model, user |-> "", consulted |-> FALSE,
             token |-> token, error |-> "Proxy auth required: no token provided."]
       ELSE IF ~has_store
       THEN [ok |-> FALSE, model |-> logical_model, user |-> "", consulted |-> FALSE,
             token |-> token,
             error |-> "Proxy auth required but token store not configured."]
       ELSE IF ~TokenAccepted(user)
       THEN [ok |-> FALSE, model |-> logical_model, user |-> "", consulted |-> TRUE,
             token |-> token, error |-> "Proxy auth token is invalid."]
       ELSE [ok |-> TRUE, model |-> model_value, user |-> user, consulted |-> TRUE,
             token |-> token, error |-> ""]

\* an auth failure answered with a bare 401 on every route
AuthFailureStatusBare(route) == 401

\* the status of the auth-failure response: JSONResponse(error_response(...)) on
\* the chat and completions routes, status_code=401 on the embeddings route
AuthFailureStatus(route) == IF route = EmbeddingsRoute THEN 401 ELSE 200

\* the response to `except ValueError as e` around extract_and_validate_proxy_token
AuthFailureResponse(route, text) ==
    IF AuthFailureStatus(route) = 200
    THEN JsonResponse(200, ErrorResponse(text))
    ELSE IF route = EmbeddingsRoute
    THEN JsonResponse(401, EmbeddingsError(text, "invalid_request_error"))
    ELSE [NoResp EXCEPT !.status = AuthFailureStatus(route), !.closed = TRUE]

\* configure_proxy_auth(token_store, proxy_auth_required), the last startup step
ConfigureProxyAuth(required) ==
    /\ Started
    /\ ~serving
    /\ proxyAuthRequired' = required
    /\ serving' = TRUE
    /\ UNCHANGED <<req, rpc, rctx, resp, pending, rstat, served>>
    /\ UNCHANGED <<mvars, tvars, svars, pvars>>
    /\ UNCHANGED xvars

\* ======================================================== proxy/tenants.py
\* _TENANT_MAPPINGS when neither TENANT_CONFIG_JSON nor TENANT_CONFIG_FILE is set
NoMappings == {}

\* resolve_tenant returned None
NoTenant == [tenant_id |-> <<>>, logical_model |-> <<>>, foundry_resource |-> <<>>,
             foundry_model |-> <<>>, foundry_api_key |-> <<>>]

\* what _flatten_tenant_config makes of a TENANT_CONFIG_JSON with complete
\* entries: one TenantConfig per (tenant_id, logical_model)
TenantTables ==
    { { [tenant_id |-> <<"r", ":", "k">>, logical_model |-> <<"m">>,
         foundry_resource |-> <<"t">>, foundry_model |-> <<"c">>,
         foundry_api_key |-> <<"s">>] },
      { [tenant_id |-> <<"o">>, logical_model |-> <<"m">>,
         foundry_resource |-> <<"t">>, foundry_model |-> <<"c">>,
         foundry_api_key |-> <<"s">>] } }

\* resolve_tenant: the exact-match lookup
ResolveTenant(mappings, logical_api_key, logical_model) ==
    LET hits == {t \in mappings : t.tenant_id = logical_api_key
                                  /\ t.logical_model = logical_model}
    IN IF hits = {} THEN NoTenant ELSE CHOOSE t \in hits : TRUE

\* _TENANT_MAPPINGS = _load_tenant_mappings(), when proxy.tenants is imported
\* with a tenant table configured
LoadTenantMappings(table) ==
    /\ Started
    /\ ~serving
    /\ tenantMappings = NoMappings
    /\ tenantMappings' = table
    /\ UNCHANGED <<fcall, feed, upd>>
    /\ UNCHANGED <<mvars, tvars, svars, pvars, rvars>>

\* ================================================ the handlers of the gateway
\* a request arrives (the completions and embeddings handlers read the time)
Receive(r) ==
    /\ serving
    /\ rpc \in {"idle", "done"}
    /\ served < MaxRequests
    /\ req' = r
    /\ rpc' = IF r.app = "proxy" THEN "parse" ELSE "legacy"
    /\ rctx' = NoCtx
    /\ resp' = NoResp
    /\ pending' = <<>>
    /\ rstat' = [NoStat EXCEPT !.start = clock]
    /\ served' = served + 1
    /\ clock' = IF r.app = "proxy" /\ r.route # ChatRoute THEN clock + 1 ELSE clock
    /\ UNCHANGED <<proxyAuthRequired, serving>>
    /\ UNCHANGED <<routes, calls, metricsFile, MetricsRest, tokens, lastOp, TokensRest>>
    /\ UNCHANGED <<svars, pvars>>
    /\ UNCHANGED xvars

\* `body = await request.json()` and the checks before the auth step
Parse ==
    /\ rpc = "parse"
    /\ LET failed == [rstat EXCEPT !.failed = TRUE]
       IN IF req.route = EmbeddingsRoute
          THEN IF req.body = "invalid"
               THEN /\ MetricsRecord(ErrorArgs(req.route, "", "", "unknown",
                                               DurationMs(req.route, rstat.start, clock)))
                    /\ Return(JsonResponse(400, EmbeddingsError("Invalid JSON",
                                                                "invalid_request_error")),
                              [failed EXCEPT !.record = 1, !.errors = 1])
               ELSE IF req.body \in {"scalar", "list"}
               THEN NoRecord /\ Return(InternalServerError, failed)
               ELSE /\ NoRecord
                    /\ rpc' = "auth"
                    /\ UNCHANGED <<resp, rstat, pending>>
          ELSE /\ NoRecord
               /\ IF req.body = "invalid"
                  THEN Return(JsonResponse(200, ErrorResponse("Invalid JSON")), failed)
                  ELSE IF req.body = "list"
                  THEN Return(JsonResponse(200, ErrorResponse("Batch requests are not supported")),
                              failed)
                  ELSE IF req.body = "scalar"
                  THEN Return(InternalServerError, failed)
                  ELSE IF ~req.has_input
                  THEN Return(JsonResponse(200, ErrorResponse(
                                  IF req.route = ChatRoute
                                  THEN "No 'messages' field provided"
                                  ELSE "No 'prompt' field provided")),
                              failed)
                  ELSE /\ rpc' = "auth"
                       /\ UNCHANGED <<resp, rstat, pending>>
    /\ UNCHANGED <<proxyAuthRequired, serving, req, rctx, served>>
    /\ UNCHANGED <<MetricsRest, tokens, lastOp, TokensRest>>
    /\ UNCHANGED <<svars, pvars>>
    /\ UNCHANGED xvars

\* logical_model, proxy_user = extract_and_validate_proxy_token(...)
Authorize ==
    /\ rpc = "auth"
    /\ LET res == ExtractAndValidate(req.model, req.proxy_token, proxyAuthRequired,
                                     tokenPath # "", tokens)
           i == MatchIndex(tokens, TokenNumber(res.token))
           stat == [rstat EXCEPT !.validate = IF res.consulted THEN @ + 1 ELSE @]
       IN /\ IF res.consulted
             THEN /\ lastOp' = [op |-> "validate", user |-> "",
                                plain |-> TokenNumber(res.token), flag |-> FALSE,
                                result |-> ValidateUser(tokens, TokenNumber(res.token))]
                  /\ IF i = 0
                     THEN UNCHANGED <<tokens, clock>>
                     ELSE /\ tokens' = [tokens EXCEPT ![i].last_used = clock]
                          /\ clock' = clock + 1
             ELSE UNCHANGED <<tokens, lastOp, clock>>
          /\ IF res.ok
             THEN /\ rctx' = [rctx EXCEPT !.model = res.model, !.user = res.user]
                  /\ rpc' = "prepare"
                  /\ rstat' = stat
                  /\ UNCHANGED <<resp, pending>>
             ELSE /\ Return(AuthFailureResponse(req.route, res.error),
                            [stat EXCEPT !.failed = TRUE, !.auth_failed = TRUE,
                                         !.error_text = res.error])
                  /\ UNCHANGED rctx
    /\ UNCHANGED <<proxyAuthRequired, serving, req, served>>
    /\ UNCHANGED <<routes, calls, metricsFile, MetricsRest, TokensRest>>
    /\ UNCHANGED <<svars, pvars>>
    /\ UNCHANGED xvars

\* the response of the `except` clauses around the upstream call, after the
\* error has been recorded
FailureReturn(text, err_type, status, stat) ==
    IF req.route = EmbeddingsRoute
    THEN Return(JsonResponse(status, EmbeddingsError(text, err_type)), stat)
    ELSE IF req.route = ChatRoute /\ req.stream
    THEN ReturnStream(ErrorEventGen(text), stat)
    ELSE Return(JsonResponse(200, ErrorResponse(text)), stat)

\* from the auth step to the upstream call: the API key, the user id, the
\* checks on model and input, derive_foundry_settings
Prepare ==
    /\ rpc = "prepare"
    /\ LET user_id == IF rctx.user # "" THEN rctx.user ELSE DeriveUserId(req.auth, "")
           settings == DeriveFoundrySettings(req.auth, rctx.model)
           dur == DurationMs(req.route, rstat.start, clock)
           MissingConfig == "Could not derive complete Foundry configuration"
           failed == [rstat EXCEPT !.failed = TRUE, !.record = @ + 1, !.errors = @ + 1]
       IN IF rctx.model = <<>>
          THEN /\ MetricsRecord(ErrorArgs(req.route, "", "",
                                          IF req.route = EmbeddingsRoute THEN "unknown"
                                          ELSE user_id, dur))
               /\ IF req.route = EmbeddingsRoute
                  THEN Return(JsonResponse(400, EmbeddingsError("No 'model' field provided",
                                                                "invalid_request_error")),
                              failed)
                  ELSE Return(JsonResponse(200, ErrorResponse("No 'model' field provided")),
                              failed)
               /\ UNCHANGED rctx
          ELSE IF req.route = EmbeddingsRoute /\ ~req.has_input
          THEN /\ MetricsRecord(ErrorArgs(req.route, Join(rctx.model), "", "unknown", dur))
               /\ Return(JsonResponse(400, EmbeddingsError("No 'input' field provided",
                                                           "invalid_request_error")),
                         failed)
               /\ UNCHANGED rctx
          ELSE IF ~settings.ok
          THEN /\ MetricsRecord(ErrorArgs(req.route, Join(rctx.model), "", user_id, dur))
               /\ FailureReturn(MissingConfig, "invalid_request_error", 400,
                                [failed EXCEPT !.error_text = MissingConfig])
               /\ UNCHANGED rctx
          ELSE /\ NoRecord
               /\ rctx' = [rctx EXCEPT !.user_id = user_id,
                                       !.resource = Join(settings.resource),
                                       !.settings = [resource |-> settings.resource,
                                                     model |-> settings.model,
                                                     api_key |-> settings.api_key]]
               /\ rpc' = "upstream"
               /\ UNCHANGED <<resp, rstat, pending>>
    /\ UNCHANGED <<proxyAuthRequired, serving, req, served>>
    /\ UNCHANGED <<MetricsRest, tokens, lastOp, TokensRest>>
    /\ UNCHANGED <<svars, pvars>>
    /\ UNCHANGED xvars

UpstreamDown == "Could not reach Foundry resource"

\* a chat response that says "stop" whatever was extracted
ChatBodyStop(text, ex) ==
    Body("chat.completion", IF text = <<>> THEN Placeholder ELSE text, "stop", ex.calls, "")

\* the body of a successful chat response
ChatBody(text, ex) ==
    IF ex.calls # <<>>
    THEN Body("chat.completion", ex.remaining, "tool_calls", ex.calls, "")
    ELSE Body("chat.completion", IF text = <<>> THEN Placeholder ELSE text, "stop",
              <<>>, "")

\* client.create_messages(...) / client.create_embeddings(...) and all that
\* follows it in the handler
CallUpstream(outcome, text) ==
    /\ rpc = "upstream"
    /\ outcome = "NotImplementedError" => req.route = EmbeddingsRoute
    /\ (outcome # "ok" \/ req.route = EmbeddingsRoute) => text = <<>>
    /\ \E reply \in RepliesFor(req.route, outcome) :
       LET dur == DurationMs(req.route, rstat.start, clock)
           model == Join(rctx.model)
           called == [rstat EXCEPT !.upstream = @ + 1, !.text = text, !.reply = reply]
           failed == [called EXCEPT !.failed = TRUE, !.up_failed = TRUE, !.record = @ + 1,
                                    !.errors = @ + 1, !.error_text = UpstreamDown]
           ok == [called EXCEPT !.record = @ + 1]
           ex == IF req.tools # {} THEN ExtractToolCalls(text, req.tools)
                 ELSE [raised |-> FALSE, calls |-> <<>>, remaining |-> text]
           good == [route |-> req.route, model |-> model, resource |-> rctx.resource,
                    user_id |-> rctx.user_id, error |-> FALSE, duration_ms |-> dur,
                    usage |-> UpstreamUsage]
       IN IF outcome # "ok"
          THEN /\ MetricsRecord(ErrorArgs(req.route, model, rctx.resource, rctx.user_id,
                                          dur))
               /\ FailureReturn(UpstreamDown,
                                IF outcome = "NotImplementedError"
                                THEN "not_supported_error"
                                ELSE IF outcome = "ValueError"
                                THEN "invalid_request_error" ELSE "server_error",
                                IF outcome = "Exception" THEN 500 ELSE 400,
                                failed)
          ELSE IF req.route = EmbeddingsRoute
          THEN /\ MetricsRecord(good)
               /\ Return(JsonResponse(200, Body("list", <<>>, "", <<>>, "")), ok)
          ELSE IF req.route = CompletionsRoute
          THEN /\ MetricsRecord(good)
               /\ Return(JsonResponse(200, Body("text_completion",
                                                IF text = <<>> THEN Placeholder ELSE text,
                                                "stop", <<>>, "")), ok)
          ELSE IF ex.raised
          THEN /\ NoRecord
               /\ Return(InternalServerError, [called EXCEPT !.failed = TRUE])
          ELSE /\ MetricsRecord(good)
               /\ IF req.stream
                  THEN ReturnStream(EventGen(text, ex.calls), ok)
                  ELSE Return(JsonResponse(200, ChatBody(text, ex)), ok)
    /\ UNCHANGED <<proxyAuthRequired, serving, req, rctx, served>>
    /\ UNCHANGED <<MetricsRest, tokens, lastOp, TokensRest>>
    /\ UNCHANGED <<svars, pvars>>
    /\ UNCHANGED xvars

\* the generator behind a StreamingResponse yields its next event
Emit ==
    /\ rpc = "streaming"
    /\ pending # <<>>
    /\ resp' = [resp EXCEPT !.events = Append(@, Head(pending)),
                            !.closed = (Tail(pending) = <<>>)]
    /\ pending' = Tail(pending)
    /\ rpc' = IF Tail(pending) = <<>> THEN "done" ELSE "streaming"
    /\ UNCHANGED <<proxyAuthRequired, serving, req, rctx, rstat, served>>
    /\ UNCHANGED <<mvars, tvars, svars, pvars>>
    /\ UNCHANGED xvars

\* ================================================ lmstudio_claude_proxy_az.py
\* chat_completions up to the upstream call: no auth step, no metrics
LegacyParse ==
    /\ rpc = "legacy"
    /\ LET failed == [rstat EXCEPT !.failed = TRUE]
       IN IF req.body = "invalid"
          THEN Return(JsonResponse(200, ErrorResponse("Invalid JSON")), failed)
          ELSE IF req.body \in {"scalar", "list"}
          THEN Return(InternalServerError, failed)
          ELSE IF ~req.has_input
          THEN Return(JsonResponse(200, ErrorResponse("No 'messages' field provided")),
                      failed)
          ELSE IF req.api_key_mode /\ req.stream
          THEN /\ resp' = StreamingResponse(FALSE)
               /\ rpc' = "lstream"
               /\ UNCHANGED <<rstat, pending>>
          ELSE /\ rpc' = "lcall"
               /\ UNCHANGED <<resp, rstat, pending>>
    /\ UNCHANGED <<proxyAuthRequired, serving, req, rctx, served>>
    /\ UNCHANGED <<mvars, tvars, svars, pvars>>
    /\ UNCHANGED xvars

\* call_foundry_anthropic / call_foundry_responses and all that follows
LegacyCall(outcome, text) ==
    /\ rpc = "lcall"
    /\ outcome # "ok" => text = <<>>
    /\ LET called == [rstat EXCEPT !.upstream = @ + 1, !.text = text]
           ex == IF req.tools # {} /\ ~req.api_key_mode
                 THEN ExtractToolCalls(text, req.tools)
                 ELSE [raised |-> FALSE, calls |-> <<>>, remaining |-> text]
       IN IF outcome # "ok"
          THEN Return(JsonResponse(200, ErrorResponse(UpstreamDown)),
                      [called EXCEPT !.failed = TRUE, !.up_failed = TRUE,
                                     !.error_text = UpstreamDown])
          ELSE IF ex.raised
          THEN Return(InternalServerError, [called EXCEPT !.failed = TRUE])
          ELSE IF req.stream
          THEN ReturnStream(EventGen(text, ex.calls), called)
          ELSE Return(JsonResponse(200, ChatBody(text, ex)), called)
    /\ UNCHANGED <<proxyAuthRequired, serving, req, rctx, served>>
    /\ UNCHANGED <<mvars, tvars, svars, pvars>>
    /\ UNCHANGED xvars

\* event_gen_api_key_stream: a text_delta event arrives and is forwarded
LegacyStreamDelta ==
    /\ rpc = "lstream"
    /\ Len(resp.events) < MaxDeltas
    /\ resp' = [resp EXCEPT !.events =
                   Append(@, Chunk("assistant", TRUE, <<Txt("hi")>>, <<>>, ""))]
    /\ rstat' = [rstat EXCEPT !.upstream = 1]
    /\ UNCHANGED <<proxyAuthRequired, serving, req, rpc, rctx, pending, served>>
    /\ UNCHANGED <<mvars, tvars, svars, pvars>>
    /\ UNCHANGED xvars

\* event_gen_api_key_stream: the upstream stream ends; the done chunk and the
\* sentinel are yielded
LegacyStreamEnd ==
    /\ rpc = "lstream"
    /\ resp' = [resp EXCEPT !.events = @ \o <<TerminalChunk("stop"), DoneEvent>>,
                            !.closed = TRUE]
    /\ rstat' = [rstat EXCEPT !.upstream = 1]
    /\ rpc' = "done"
    /\ UNCHANGED <<proxyAuthRequired, serving, req, rctx, pending, served>>
    /\ UNCHANGED <<mvars, tvars, svars, pvars>>
    /\ UNCHANGED xvars

\* event_gen_api_key_stream: the upstream call raises, when the stream is
\* opened or between two events; only BadRequestError is caught
LegacyStreamFail(kind) ==
    /\ rpc = "lstream"
    /\ resp' = [resp EXCEPT !.events = IF kind = "BadRequestError"
                                       THEN @ \o <<[type |-> "completion", role |-> "assistant",
                                                     has_content |-> TRUE,
                                                     content |-> <<Txt(UpstreamDown)>>,
                                                     tool_calls |-> <<>>,
                                                     finish_reason |-> "stop"],
                                                    DoneEvent>>
                                       ELSE @,
                            !.closed = TRUE]
    /\ rstat' = [rstat EXCEPT !.upstream = 1, !.failed = TRUE, !.up_failed = TRUE,
                              !.error_text = UpstreamDown]
    /\ rpc' = "done"
    /\ UNCHANGED <<proxyAuthRequired, serving, req, rctx, pending, served>>
    /\ UNCHANGED <<mvars, tvars, svars, pvars>>
    /\ UNCHANGED xvars

\* the gateway and the legacy app serving requests
NextReq ==
    \/ PlaceDocument("tokens", [kind |-> "object", version |-> TOKENS_SCHEMA_VERSION,
                                tokens |-> StoredEntries])
    \/ OpenTokenStore("tokens.json")
    \/ \E table \in TenantTables : LoadTenantMappings(table)
    \/ \E required \in BOOLEAN : ConfigureProxyAuth(required)
    \/ \E r \in ProxyRequests \cup LegacyRequests : Receive(r)
    \/ Parse
    \/ Authorize
    \/ Prepare
    \/ \E outcome \in {"ok", "ValueError", "Exception", "NotImplementedError"},
             text \in UpstreamTexts : CallUpstream(outcome, text)
    \/ Emit
    \/ LegacyParse
    \/ \E outcome \in {"ok", "Exception"}, text \in UpstreamTexts :
          LegacyCall(outcome, text)
    \/ LegacyStreamDelta
    \/ LegacyStreamEnd
    \/ \E kind \in {"BadRequestError", "APIConnectionError"} : LegacyStreamFail(kind)

\* ------------------------------------- a client timing its requests
MaxOver == 3         \* the samples a route receives beyond MAX_LATENCY_SAMPLES

NoFeed == [kind |-> "", routes |-> <<>>, sent |-> 0, done |-> FALSE]

FeedKinds == {"rising", "falling", "flat", "spike", "zigzag", "gaps"}

\* the routes a client calls in turn, among those whose handler times the request
FeedRoutes == { <<CompletionsRoute>>, <<CompletionsRoute, EmbeddingsRoute>> }

\* duration_ms of the client's i-th request
FeedDuration(kind, i) ==
    IF kind = "rising" THEN i
    ELSE IF kind = "falling" THEN 1000 - i
    ELSE IF kind = "flat" THEN 5
    ELSE IF kind = "spike" THEN (IF i % 7 = 0 THEN 900 ELSE 3 + (i % 3))
    ELSE IF kind = "zigzag" THEN (i * 37) % 101
    ELSE IF i % 10 = 0 THEN NoDuration ELSE (i * 13) % 50

\* the calls on route r that carried a duration, in arrival order
TimedOn(r) == SelectSeq(calls, LAMBDA a : a.route = r /\ a.duration_ms # NoDuration)

\* a client starts sending requests
StartFeed ==
    /\ feed = NoFeed
    /\ calls = <<>>
    /\ \E kind \in FeedKinds, rts \in FeedRoutes :
          feed' = [kind |-> kind, routes |-> rts, sent |-> 0, done |-> FALSE]
    /\ UNCHANGED <<tenantMappings, fcall, upd>>
    /\ UNCHANGED <<mvars, tvars, svars, pvars, rvars>>

\* MetricsTracker.record(route, ..., duration_ms=...) with no persist path set
TimedRecord ==
    /\ feed.kind # "" /\ ~feed.done
    /\ LockFree
    /\ persistPath = ""
    /\ LET route == feed.routes[(feed.sent % Len(feed.routes)) + 1]
           a == [route |-> route, model |-> "m", resource |-> "res",
                 user_id |-> "alice", error |-> FALSE,
                 duration_ms |-> FeedDuration(feed.kind, feed.sent + 1),
                 usage |-> ZERO_USAGE]
       IN /\ Len(TimedOn(route)) < MAX_LATENCY_SAMPLES + MaxOver
          /\ routes' = RecordApply(routes, a, clock)
          /\ calls' = Append(calls, a)
    /\ clock' = clock + 1
    /\ feed' = [feed EXCEPT !.sent = @ + 1]
    /\ UNCHANGED <<lock, persistPath, metricsFile, tpc, targs, tlocal, contended, snap,
                   snapReturned>>
    /\ UNCHANGED <<tenantMappings, fcall, upd>>
    /\ UNCHANGED <<tvars, svars, pvars, rvars>>

\* MetricsTracker.snapshot(), the last thing the client does
FeedSnapshot ==
    /\ feed.kind # "" /\ ~feed.done
    /\ LockFree
    /\ snap' = [r \in DOMAIN routes |-> ToDict(routes[r])]
    /\ snapReturned' = Len(calls)
    /\ feed' = [feed EXCEPT !.done = TRUE]
    /\ UNCHANGED <<lock, routes, persistPath, metricsFile, clock, tpc, targs, tlocal, calls,
                   contended>>
    /\ UNCHANGED <<tenantMappings, fcall, upd>>
    /\ UNCHANGED <<tvars, svars, pvars, rvars>>

NextLatency ==
    \/ StartFeed
    \/ TimedRecord
    \/ FeedSnapshot

\* ========================================================= specifications
\* every store as constructed, before any path is configured
Init ==
    /\ lock = NoThread
    /\ routes = [r \in {} |-> NewRouteMetrics(0)]
    /\ persistPath = ""
    /\ metricsFile = NoFile
    /\ clock = 1
    /\ tpc = [t \in Threads |-> "idle"]
    /\ targs = [t \in Threads |-> NoArgs]
    /\ tlocal = [t \in Threads |-> 0]
    /\ calls = <<>>
    /\ contended = FALSE
    /\ snap = [r \in {} |-> ToDict(NewRouteMetrics(0))]
    /\ snapReturned = 0
    /\ tokens = <<>>
    /\ tokenPath = ""
    /\ tokenFile = NoFile
    /\ genCtr = 0
    /\ lastOp = [op |-> "none", user |-> "", plain |-> 0, flag |-> FALSE, result |-> ""]
    /\ plainOf = [u \in {} |-> 0]
    /\ registered = {}
    /\ startTime = 1
    /\ cfgData = DefaultConfig
    /\ cfgPath = ""
    /\ cfgFile = NoFile
    /\ cfgLoadedAt = 1
    /\ loadRes = NoLoad
    /\ saveStore = ""
    /\ savePc = "idle"
    /\ saveDoc = NoFile
    /\ tmpFile = NoFile
    /\ prevDoc = NoFile
    /\ crashed = FALSE
    /\ saves = 0
    /\ proxyAuthRequired = FALSE
    /\ serving = FALSE
    /\ req = NoReq
    /\ rpc = "idle"
    /\ rctx = NoCtx
    /\ resp = NoResp
    /\ pending = <<>>
    /\ rstat = NoStat
    /\ served = 0
    /\ tenantMappings = NoMappings
    /\ fcall = NoCall
    /\ feed = NoFeed
    /\ upd = [t \in Threads |-> NoUpdate]

NextMetrics ==
    \/ \E path \in {"metrics.json", "/readonly/store.json"} : ConfigurePersistence(path)
    \/ \E t \in Threads : RecordCall(t)
    \/ \E t \in Threads : RecordEnter(t)
    \/ \E t \in Threads : RecordCount(t)
    \/ \E t \in Threads : RecordUsage(t)
    \/ \E t \in Threads : RecordBreakdown(t)
    \/ \E t \in Threads : RecordPersist(t)
    \/ Snapshot

NextTokens ==
    \/ OpenTokenStore("tokens.json")
    \/ \E u \in Users, t \in SuppliedTokens \cup {NoToken}, d \in BOOLEAN :
          AddToken(u, t, "", d)
    \/ \E u \in Users, t \in SuppliedTokens \cup {NoToken} : ResetToken(u, t)
    \/ \E u \in Users, d \in BOOLEAN : SetDisabled(u, d)
    \/ \E u \in Users, e \in Emails : UpdateMetadata(u, e)
    \/ \E u \in Users : DeleteToken(u)
    \/ \E t \in SuppliedTokens \cup GeneratedTokens \cup {3} : Validate(t)

\* the metrics aggregator under concurrent record() and snapshot() calls
SpecMetrics == Init /\ [][NextMetrics]_vars

\* the credential store under any sequence of its operations
SpecTokens == Init /\ [][NextTokens]_vars

\* startup over the files found on disk
SpecLoad == Init /\ [][NextLoad]_vars

\* the three stores saving, with a crash possible between any two steps
SpecPersist == Init /\ [][NextPersist]_vars

\* the gateway (and the legacy single-file app) answering requests
SpecReq == Init /\ [][NextReq]_vars

\* record() called with durations until the latency window has overflowed
SpecLatency == Init /\ [][NextLatency]_vars

\* models.py called on every short message list
SpecModels == Init /\ [][NextModels]_vars

\* the admin config store with update() called from several threads
NextConfig ==
    \/ OpenConfigStore("config.json")
    \/ \E t \in Threads : UpdateCall(t)
    \/ \E t \in Threads : UpdateModel(t)
    \/ \E t \in Threads : UpdateResource(t)
    \/ \E t \in Threads : UpdateFlags(t)
    \/ \E t \in Threads : UpdateSave(t)
    \/ \E t \in Threads : UpdateReturn(t)

SpecConfig == Init /\ [][NextConfig]_vars

\* records, a restart, and records again
NextRestart ==
    \/ ConfigurePersistence("metrics.json")
    \/ RecordAndPersist
    \/ Restart

SpecRestart == Init /\ [][NextRestart]_vars

\* tools.py called on every short assistant text
SpecTools == Init /\ [][NextTools]_vars

\* encoding.py called on every short apiKey and model string
SpecEncoding == Init /\ [][NextEncoding]_vars

\* ------------------------------------------------------------------- C3
\* the enabled users other than u whose current token is the plaintext t
OthersHolding(u, t) ==
    {tokens[i].user : i \in {j \in DOMAIN tokens :
        tokens[j].user # u /\ ~tokens[j].disabled /\ plainOf[tokens[j].user] = t}}

AfterAdd == lastOp.op = "add" /\ ~lastOp.flag

AfterDisable ==
    lastOp.op = "set_disabled" /\ lastOp.flag /\ lastOp.result = "true"

\* C3 as stated: right after add(u, t), validate(t) returns u; right after
\* setDisabled(u, true), validate of u's token returns null; validate of a
\* token that was never registered returns null.
C3_AsStated ==
    /\ AfterAdd => ValidateUser(tokens, lastOp.plain) = lastOp.user
    /\ AfterDisable => ValidateUser(tokens, plainOf[lastOp.user]) = ""
    /\ (lastOp.op = "validate" /\ lastOp.plain \notin registered) => lastOp.result = ""

\* C3 (amended): right after add(u, t), validate(t) returns u, or another
\* enabled user that holds the same token t; right after setDisabled(u, true),
\* validate of u's token never returns u, and returns null unless another
\* enabled user holds that token (then it returns such a user); validate of a
\* token that was never registered returns null.
C3_ValidateAfterOps ==
    /\ AfterAdd =>
          LET v == ValidateUser(tokens, lastOp.plain)
              others == OthersHolding(lastOp.user, lastOp.plain)
          IN /\ v \in {lastOp.user} \cup others
             /\ others = {} => v = lastOp.user
    /\ AfterDisable =>
          LET v == ValidateUser(tokens, plainOf[lastOp.user])
              others == OthersHolding(lastOp.user, plainOf[lastOp.user])
          IN /\ v # lastOp.user
             /\ IF others = {} THEN v = "" ELSE v \in others
    /\ (lastOp.op = "validate" /\ lastOp.plain \notin registered) => lastOp.result = ""

\* a user was just disabled while another enabled user holds the same token
C3_Witness ==
    /\ AfterDisable
    /\ OthersHolding(lastOp.user, plainOf[lastOp.user]) # {}
    /\ plainOf[lastOp.user] \in SuppliedTokens

\* ------------------------------------------------------------ C1 and C2
RouteNames == {a.route : a \in RecordInputs}

CallsOn(r) == {i \in DOMAIN calls : calls[i].route = r}

RECURSIVE SumField(_, _)
SumField(idx, f) ==
    IF idx = {} THEN 0
    ELSE LET i == CHOOSE j \in idx : TRUE
         IN (IF calls[i].usage[f] = NoInt THEN 0 ELSE calls[i].usage[f])
            + SumField(idx \ {i}, f)

AllReturned == \A t \in Threads : tpc[t] = "idle"

\* C1: once every issued record() call has returned, each route's count is the
\* number of calls on it, its error_count the number of those with error=true,
\* and its usage totals the sums of the calls' usage fields, whatever the
\* interleaving of the calls was.
C1_NoLostUpdate ==
    AllReturned =>
        \A r \in RouteNames :
            IF CallsOn(r) = {} THEN r \notin DOMAIN routes
            ELSE /\ r \in DOMAIN routes
                 /\ routes[r].count = Cardinality(CallsOn(r))
                 /\ routes[r].error_count =
                        Cardinality({i \in CallsOn(r) : calls[i].error})
                 /\ routes[r].usage.prompt_tokens = SumField(CallsOn(r), "prompt_tokens")
                 /\ routes[r].usage.completion_tokens =
                        SumField(CallsOn(r), "completion_tokens")
                 /\ routes[r].usage.total_tokens = SumField(CallsOn(r), "total_tokens")

\* two calls on one route have returned, one of which waited for the lock
C1_Witness ==
    /\ AllReturned
    /\ contended
    /\ Cardinality(CallsOn("/v1/chat/completions")) >= 2
    /\ \E i \in CallsOn("/v1/chat/completions") : calls[i].error

RECURSIVE SumDict(_, _)
SumDict(d, f) ==
    IF DOMAIN d = {} THEN 0
    ELSE LET k == CHOOSE j \in DOMAIN d : TRUE
         IN d[k][f] + SumDict([j \in DOMAIN d \ {k} |-> d[j]], f)

RECURSIVE SumCounts(_)
SumCounts(s) ==
    IF DOMAIN s = {} THEN 0
    ELSE LET k == CHOOSE j \in DOMAIN s : TRUE
         IN s[k].count + SumCounts([j \in DOMAIN s \ {k} |-> s[j]])

UsageFields == {"prompt_tokens", "completion_tokens", "total_tokens"}

\* C2: every snapshot reflects whole record() calls only: it counts exactly the
\* calls that had returned, and in each route error_count <= count, the latency
\* window holds no more samples than calls, and the usage totals equal the sum
\* over by_model, over by_resource and over by_user.
C2_SnapshotAtomic ==
    /\ SumCounts(snap) = snapReturned
    /\ \A r \in DOMAIN snap :
          /\ snap[r].error_count <= snap[r].count
          /\ snap[r].latency_ms.count <= snap[r].count
          /\ \A f \in UsageFields :
                /\ snap[r].usage[f] = SumDict(snap[r].by_model, f)
                /\ snap[r].usage[f] = SumDict(snap[r].by_resource, f)
                /\ snap[r].usage[f] = SumDict(snap[r].by_user, f)

\* a snapshot taken while another record() call is waiting to start, after one
\* call with usage has completed
C2_Witness ==
    /\ \E t \in Threads : tpc[t] = "lock"
    /\ \E r \in DOMAIN snap : snap[r].count >= 1 /\ snap[r].usage.total_tokens > 0
    /\ snapReturned >= 1

\* ------------------------------------------------------------------- C9
\* C9: at every step of every save, and after a crash at any step, the file at
\* each store's path is a complete document (never a partial one), and the
\* target of the save in progress is either the complete previous snapshot
\* or the complete new one.
C9_CrashSafe ==
    \A s \in Stores :
        /\ FileOf(s).kind \in {"absent", "object"}
        /\ saveStore = s => (FileOf(s) = prevDoc \/ FileOf(s) = saveDoc)

\* the process was killed while a half-written temporary file existed, and
\* the target still holds the complete previous snapshot
C9_Witness ==
    /\ crashed
    /\ savePc = "dump"
    /\ tmpFile.kind = "partial" /\ tmpFile.written >= 1
    /\ prevDoc.kind = "object"
    /\ FileOf(saveStore) = prevDoc
    /\ saveDoc # prevDoc

\* ------------------------------------------------------------------ C12
\* the hash h stored for `user` is a salted hash of the user's token and is
\* itself none of the plaintexts ever registered
HidesToken(h, user) ==
    /\ DOMAIN h = {"salt", "digest"}
    /\ Checkpw(plainOf[user], h)
    /\ \A p \in registered : h.digest # p

EntryFields == {"user", "hash", "email", "display_name", "created_at", "last_used",
                "disabled"}

\* C12: after any sequence of add, reset, set_disabled, update_metadata, delete
\* and validate calls, every entry in memory and in the persisted document has
\* the TokenEntry fields only, with a salted hash in place of the token; the
\* public listing has neither token nor hash; and a plaintext is the result of
\* a call only for the add or reset call that has just set it.
C12_NoPlaintext ==
    /\ \A i \in DOMAIN tokens :
          /\ DOMAIN tokens[i] = EntryFields
          /\ HidesToken(tokens[i].hash, tokens[i].user)
    /\ tokenFile.kind = "object" =>
          /\ DOMAIN tokenFile = {"kind", "version", "tokens"}
          /\ \A i \in DOMAIN tokenFile.tokens :
                /\ DOMAIN tokenFile.tokens[i] = EntryFields
                /\ \A p \in registered : tokenFile.tokens[i].hash.digest # p
    /\ \A i \in DOMAIN ListPublic(tokens) :
          DOMAIN ListPublic(tokens)[i] = EntryFields \ {"hash"}
    /\ lastOp.result = "token" =>
          /\ lastOp.op \in {"add", "reset"}
          /\ lastOp.plain = plainOf[lastOp.user]
    /\ lastOp.op \notin {"add", "reset", "validate"} => lastOp.plain = 0
    /\ \A i, j \in DOMAIN tokens : i # j => tokens[i].hash # tokens[j].hash

\* two users hold the same token, one of them after a reset that generated it
\* or supplied it, and the document on disk lists both
C12_Witness ==
    /\ lastOp.op = "reset" /\ lastOp.result = "token"
    /\ Len(tokens) = 2
    /\ plainOf[tokens[1].user] = plainOf[tokens[2].user]
    /\ tokenFile.kind = "object" /\ Len(tokenFile.tokens) = 2

\* ------------------------------------------------------------------ C11
\* the last save was one of the metrics store and its write failed
MetricsSaveFailed ==
    /\ saveStore = "" /\ savePc \notin {"idle", "create", "dump", "sync", "replace"}
    /\ "start_time" \in DOMAIN saveDoc

\* the aggregate in memory, as a document
InMemory == MetricsPayload(routes, startTime)

\* C11: when the write of a record() or reset() call fails (the temporary file
\* cannot be created, or a write to it raises), the error is swallowed: the
\* call returns normally, the lock is free again, the file at the path is as it
\* was, and the aggregate in memory is the one that would have been persisted
\* (after record: the call counted on its route; after reset: no routes and the
\* new start time).
C11_FailureSwallowed ==
    MetricsSaveFailed =>
        /\ savePc = "swallowed"
        /\ lock = NoThread
        /\ metricsFile = prevDoc
        /\ InMemory = saveDoc
        /\ \A r \in RouteNames :
              IF CallsOn(r) = {} THEN r \notin DOMAIN routes
              ELSE /\ r \in DOMAIN routes
                   /\ routes[r].count = Cardinality(CallsOn(r))
                   /\ routes[r].usage.total_tokens = SumField(CallsOn(r), "total_tokens")
                   /\ Len(routes[r].durations_ms) =
                          Cardinality({i \in CallsOn(r) : calls[i].duration_ms # NoDuration})
        /\ calls = <<>> => (DOMAIN routes = {} /\ startTime > 1)

\* a record() whose write failed half way, after an earlier save had succeeded
C11_Witness ==
    /\ MetricsSaveFailed
    /\ tmpFile.kind = "partial"
    /\ prevDoc.kind = "object"
    /\ calls # <<>>
    /\ InMemory # metricsFile

\* a reset() whose write failed
C11_ResetWitness ==
    /\ MetricsSaveFailed
    /\ calls = <<>>
    /\ prevDoc.kind = "object" /\ DOMAIN prevDoc.routes # {}

\* ------------------------------------------------------------------ C10
\* C10 (as stated): a load of a document without a recognized version (an
\* unknown or missing version, or a document that is not a JSON object) is
\* refused: no exception escapes and the in-memory state is as it was.
C10_AsStated ==
    (loadRes.outcome # "none" /\ loadRes.unrecognized)
        => (loadRes.outcome = "refused" /\ loadRes.unchanged)

\* ------------------------------------------------------------------ C14
Derived == fcall.fn = "derive_foundry_settings"

\* the three parts as the decoders give them: the credential, the resource
\* (from the credential first, else from the model) and the model
PartsOf(logical_api_key, logical_model) ==
    LET k == DecodeApiKey(logical_api_key)
        m == DecodeModel(logical_model)
    IN [api_key |-> k.key,
        resource |-> IF k.resource # <<>> THEN k.resource ELSE m.resource,
        model |-> m.model]

\* the names of the empty parts, in the order of the message
MissingOf(parts) ==
    (IF parts.api_key = <<>>
     THEN <<"Foundry API key (must be provided via apiKey)">> ELSE <<>>)
    \o (IF parts.resource = <<>>
        THEN <<"Foundry resource (must be encoded in apiKey or model)">> ELSE <<>>)
    \o (IF parts.model = <<>>
        THEN <<"Foundry model (must be provided via model)">> ELSE <<>>)

\* C14: derive_foundry_settings returns a target exactly when credential,
\* resource and model are all non-empty, the resource being the credential's
\* when it has one and the model's otherwise; in every other case it raises one
\* error whose message names each empty part once and no part that is there.
C14_AllOrListed ==
    Derived =>
        LET parts == PartsOf(fcall.api_key, fcall.model)
            out == fcall.out
        IN /\ out.ok <=> (parts.api_key # <<>> /\ parts.resource # <<>>
                            /\ parts.model # <<>>)
           /\ out.ok => /\ out.api_key = parts.api_key
                        /\ out.resource = parts.resource
                        /\ out.model = parts.model
                        /\ out.message = ""
           /\ ~out.ok =>
                 /\ out.missing = MissingOf(parts)
                 /\ out.missing # <<>>
                 /\ out.message = "Could not derive complete Foundry configuration; missing: "
                                    \o JoinParts(MissingOf(parts))

\* both the credential and the model carry a resource, and the credential's wins
C14_Witness ==
    /\ Derived
    /\ fcall.out.ok
    /\ DecodeModel(fcall.model).resource # <<>>
    /\ DecodeApiKey(fcall.api_key).resource # <<>>
    /\ DecodeModel(fcall.model).resource # DecodeApiKey(fcall.api_key).resource

\* two parts are missing at once
C14_TwoMissing == Derived /\ ~fcall.out.ok /\ Len(fcall.out.missing) = 2

\* ------------------------------------------------------------------ C15
KeyDecoded == fcall.fn = "decode_api_key"
ModelDecoded == fcall.fn = "decode_model"

\* what the decoder returned is what the client encoded
Recovered ==
    /\ fcall.out.resource = fcall.resource
    /\ KeyDecoded => fcall.out.key = fcall.part
    /\ ModelDecoded => fcall.out.model = fcall.part

\* a non-empty text without the separator and without blanks at its ends
PlainPart(text, sep) == text # <<>> /\ CountCh(text, sep) = 0 /\ Strip(text) = text

\* the statement as written: decoding "<resource>:<key>" and
\* "<resource>/<model>" recovers resource, key and model whatever they are
C15_AsStated == (KeyDecoded \/ ModelDecoded) => Recovered

\* C15: decode_api_key recovers resource and key from "<resource>:<key>"
\* exactly when the resource is a non-empty run of letters, digits, "-" and "_"
\* and the key is non-empty, has no ":" and no blank at either end;
\* decode_model recovers resource and model from "<resource>/<model>" exactly
\* when both are non-empty, have no "/" and no blank at either end.
C15_RoundTrip ==
    /\ KeyDecoded =>
          (Recovered <=> (LooksLikeResource(fcall.resource) /\ PlainPart(fcall.part, ":")))
    /\ ModelDecoded =>
          (Recovered <=> (PlainPart(fcall.resource, "/") /\ PlainPart(fcall.part, "/")))

\* a key with a "/" inside, encoded behind a resource and recovered
C15_Witness ==
    /\ KeyDecoded
    /\ Recovered
    /\ Len(fcall.resource) = 2
    /\ CountCh(fcall.part, "/") = 1 /\ Len(fcall.part) = 2

\* a model behind a resource that is not an identifier, recovered
C15_ModelRecovered ==
    /\ ModelDecoded
    /\ Recovered
    /\ ~LooksLikeResource(fcall.resource)

\* a key with a ":" inside: the whole text comes back as the key
C15_KeyWithColon ==
    /\ KeyDecoded
    /\ LooksLikeResource(fcall.resource)
    /\ CountCh(fcall.part, ":") = 1
    /\ fcall.out = [resource |-> <<>>, key |-> fcall.raw]

\* ------------------------------------------------------------------ C16
Extracted == fcall.fn = "extract_tool_calls_from_text"

\* the text is one attribute tag of a declared tool, with a value in its field
OneDeclaredTag ==
    /\ Extracted
    /\ Len(fcall.text) = 1
    /\ fcall.text[1].k = "tag" /\ fcall.text[1].arg # ""
    /\ fcall.text[1].name \in fcall.tools

\* the statement as written: the attribute tag of any declared tool gives one
\* call of that name and an empty remainder
C16_AsStated ==
    OneDeclaredTag =>
        /\ ~fcall.out.raised
        /\ Len(fcall.out.calls) = 1
        /\ fcall.out.calls[1].name = fcall.text[1].name
        /\ fcall.out.remaining = <<>>

\* what holds of the read_file tag alone: one call, the path under "uri"
C16_ReadFileTag ==
    (OneDeclaredTag /\ fcall.text[1].name = "read_file") =>
        /\ Len(fcall.out.calls) = 1
        /\ fcall.out.calls[1].name = "read_file"
        /\ fcall.out.calls[1].arguments = [key |-> "uri", value |-> fcall.text[1].arg]
        /\ fcall.out.remaining = <<>>

\* ------------------------------------------------------------------ C17
\* the matches that become calls when no list literal is read: the read_file
\* tags in text order, then the <tool_call> blocks in text order
DirectMatches ==
    (IF "read_file" \in fcall.tools
     THEN SelectSeq(fcall.text, LAMBDA seg : seg.k = "tag" /\ seg.name = "read_file"
                                              /\ seg.arg # "")
     ELSE <<>>)
    \o SelectSeq(fcall.text, LAMBDA seg : seg.k = "block" /\ seg.json = "object"
                                           /\ seg.name \in fcall.tools)

\* the ordinals of the calls of one name, in the order of the returned list
OrdinalsOf(name) ==
    LET named == SelectSeq(fcall.out.calls, LAMBDA c : c.name = name)
    IN [i \in DOMAIN named |-> named[i].id.ordinal]

\* the statement as written: the calls of one name are numbered 1, 2, ... among
\* themselves
C17_AsStated ==
    (Extracted /\ ~fcall.out.raised) =>
        \A name \in fcall.tools : \A i \in DOMAIN OrdinalsOf(name) : OrdinalsOf(name)[i] = i

\* C17: the id of a call is call_<name>_<k> with its own name and k its 1-based
\* position in the returned list, so the ids of one extract call are pairwise
\* distinct; the list holds the read_file tags in text order followed by the
\* <tool_call> blocks in text order.
C17_PositionIds ==
    (Extracted /\ ~fcall.out.raised) =>
        LET found == fcall.out.calls
        IN /\ \A i \in DOMAIN found : found[i].id = [name |-> found[i].name, ordinal |-> i]
           /\ \A i, j \in DOMAIN found : found[i].id = found[j].id => i = j
           /\ DirectMatches # <<>> =>
                 /\ Len(found) = Len(DirectMatches)
                 /\ \A i \in DOMAIN found :
                       /\ found[i].name = DirectMatches[i].name
                       /\ found[i].arguments.value = DirectMatches[i].arg

\* a write_file call between two read_file calls: read_file gets 1 and 3
C17_Witness ==
    /\ Extracted
    /\ Len(fcall.out.calls) = 3
    /\ fcall.out.calls[1].id = [name |-> "read_file", ordinal |-> 1]
    /\ fcall.out.calls[2].id = [name |-> "write_file", ordinal |-> 2]
    /\ fcall.out.calls[3].id = [name |-> "read_file", ordinal |-> 3]

\* a block in front of a tag: the tag's call comes first
C17_TagBeforeBlock ==
    /\ Extracted
    /\ Len(fcall.text) = 2
    /\ fcall.text[1].k = "block" /\ fcall.text[2].k = "tag"
    /\ Len(fcall.out.calls) = 2
    /\ fcall.out.calls[1].arguments.value = fcall.text[2].arg

\* ------------------------------------------------------------------ C18
\* the statement as written: extract_tool_calls_from_text returns normally on
\* every text
C18_AsStated == Extracted => ~fcall.out.raised

\* the malformed pieces that are skipped: a body that is not JSON, a name that
\* is a number, arguments that are not an object, a list that does not parse
C18_Skipped ==
    (Extracted /\ \A i \in DOMAIN fcall.text :
                     \/ fcall.text[i].k = "list" /\ fcall.text[i].json = "invalid"
                     \/ fcall.text[i].k = "block"
                          /\ fcall.text[i].json \in {"invalid", "name_number", "args_not_dict"})
        => (~fcall.out.raised /\ fcall.out.calls = <<>>)

\* ------------------------------------------------------------------ C19
\* the sum of w[lo..hi]
RECURSIVE SumRange(_, _, _)
SumRange(w, lo, hi) ==
    IF lo > hi THEN 0
    ELSE IF lo = hi THEN w[lo]
    ELSE SumRange(w, lo, (lo + hi) \div 2) + SumRange(w, (lo + hi) \div 2 + 1, hi)

\* C19: the latency window of a route never holds more than
\* MAX_LATENCY_SAMPLES samples; it holds the durations of the most recent timed
\* record calls on that route, in arrival order (the oldest leaves first), and
\* the running sum is the sum of the samples in the window.
C19_WindowFifo ==
    \A r \in DOMAIN routes :
        LET timed == TimedOn(r)
            w == routes[r].durations_ms
        IN /\ Len(w) <= MAX_LATENCY_SAMPLES
           /\ Len(w) = Min2(Len(timed), MAX_LATENCY_SAMPLES)
           /\ \A i \in DOMAIN w : w[i] = timed[Len(timed) - Len(w) + i].duration_ms
           /\ routes[r].durations_sum_ms = SumRange(w, 1, Len(w))

\* a route whose window is full and has lost its oldest samples, while calls
\* without a duration went by
C19_Witness ==
    /\ feed.kind = "gaps"
    /\ \E r \in DOMAIN routes :
          /\ Len(TimedOn(r)) = MAX_LATENCY_SAMPLES + 2
          /\ Len(routes[r].durations_ms) = MAX_LATENCY_SAMPLES
          /\ routes[r].durations_ms[1] = TimedOn(r)[3].duration_ms
          /\ routes[r].durations_ms[1] # TimedOn(r)[1].duration_ms
          /\ routes[r].count > Len(TimedOn(r))

\* ------------------------------------------------------------------ C20
\* the smallest and the largest sample of a window
MinOf(w) == CHOOSE x \in {w[i] : i \in DOMAIN w} : \A i \in DOMAIN w : x <= w[i]
MaxOf(w) == CHOOSE x \in {w[i] : i \in DOMAIN w} : \A i \in DOMAIN w : x >= w[i]

\* C20: in every snapshot of a route that has samples, p99 >= p95 >= p50 >= the
\* smallest sample of the window (and p99 <= the largest), each percentile
\* being a sample of the window; in particular after more than
\* MAX_LATENCY_SAMPLES timed calls these are the last MAX_LATENCY_SAMPLES
\* samples. With a single sample every percentile equals it.
C20_PercentilesOrdered ==
    feed.done =>
        \A r \in DOMAIN snap :
            LET l == snap[r].latency_ms
                w == routes[r].durations_ms
            IN /\ l.count = Len(w)
               /\ w # <<>> =>
                     /\ l.p99 >= l.p95 /\ l.p95 >= l.p50
                     /\ l.p50 >= MinOf(w) /\ l.p99 <= MaxOf(w)
                     /\ \A v \in {l.p50, l.p95, l.p99} : \E i \in DOMAIN w : w[i] = v
               /\ Len(w) = 1 => (l.p50 = w[1] /\ l.p95 = w[1] /\ l.p99 = w[1])
               /\ Len(TimedOn(r)) > MAX_LATENCY_SAMPLES =>
                     /\ l.count = MAX_LATENCY_SAMPLES
                     /\ w = [i \in 1..MAX_LATENCY_SAMPLES |->
                               TimedOn(r)[Len(TimedOn(r)) - MAX_LATENCY_SAMPLES + i].duration_ms]

\* a snapshot after more than MAX_LATENCY_SAMPLES timed calls whose samples
\* arrived in falling order: the percentiles are apart
C20_Witness ==
    /\ feed.done /\ feed.kind = "falling"
    /\ \E r \in DOMAIN snap :
          /\ Len(TimedOn(r)) > MAX_LATENCY_SAMPLES
          /\ snap[r].latency_ms.p50 < snap[r].latency_ms.p95
          /\ snap[r].latency_ms.p95 < snap[r].latency_ms.p99
          /\ MinOf(routes[r].durations_ms) < snap[r].latency_ms.p50

\* a snapshot after one timed call
C20_SingleSample ==
    /\ feed.done
    /\ \E r \in DOMAIN snap :
          /\ snap[r].latency_ms.count = 1
          /\ snap[r].latency_ms.p99 = routes[r].durations_ms[1]

\* ------------------------------------------------------------------ C21
Shaped == fcall.fn = "to_anthropic_payload"

\* the positions of the system messages, and of the others
SystemAt == {i \in DOMAIN fcall.messages : fcall.messages[i].role = "system"}
OtherAt == DOMAIN fcall.messages \ SystemAt

\* the contents of the messages at the positions idx, one per line, in input
\* order
RECURSIVE LinesOf(_)
LinesOf(idx) ==
    IF idx = {} THEN ""
    ELSE LET last == CHOOSE i \in idx : \A j \in idx : j <= i
         IN IF idx = {last} THEN TextOf(fcall.messages[last])
            ELSE LinesOf(idx \ {last}) \o "\n" \o TextOf(fcall.messages[last])

\* the k-th smallest position of idx
RECURSIVE Nth(_, _)
Nth(idx, k) ==
    LET first == CHOOSE i \in idx : \A j \in idx : i <= j
    IN IF k = 1 THEN first ELSE Nth(idx \ {first}, k - 1)

\* the other messages come out in their input order, role and text kept (a
\* message without a role comes out as a user message)
OthersKept ==
    /\ Len(fcall.out.messages) = Cardinality(OtherAt)
    /\ \A k \in DOMAIN fcall.out.messages :
          LET m == fcall.messages[Nth(OtherAt, k)]
          IN /\ fcall.out.messages[k].role = (IF m.role = NoRole THEN "user" ELSE m.role)
             /\ fcall.out.messages[k].content = <<[type |-> "text", text |-> TextOf(m)]>>

\* the statement as written: every message list gives, without error, exactly
\* one system block
C21_AsStated ==
    Shaped => (~fcall.out.raised /\ Len(fcall.out.system) = 1)

\* C21: for every list of message objects to_anthropic_payload returns without
\* error; there is one system block exactly when the list has a system message
\* (none otherwise), its text the contents of the system messages joined by
\* newlines in input order; the other messages keep their relative order, their
\* role (user when they have none) and their text. A non-string content goes
\* through str().
C21_OneBlockIfAny ==
    (Shaped /\ \A i \in DOMAIN fcall.messages : fcall.messages[i].dict) =>
        /\ ~fcall.out.raised
        /\ Len(fcall.out.system) = (IF SystemAt = {} THEN 0 ELSE 1)
        /\ SystemAt # {} => fcall.out.system[1] = [type |-> "text", text |-> LinesOf(SystemAt)]
        /\ OthersKept

\* two system messages around a user message
C21_Witness ==
    /\ Shaped
    /\ Len(fcall.messages) = 3
    /\ SystemAt = {1, 3}
    /\ fcall.out.system = <<[type |-> "text", text |-> "a\nb"]>>
    /\ Len(fcall.out.messages) = 1

\* no system message: no system block
C21_NoSystem ==
    /\ Shaped /\ ~fcall.out.raised
    /\ Len(fcall.messages) = 2
    /\ fcall.out.system = <<>>

\* ------------------------------------------------------------------ C22
\* the embeddings handler has returned after its upstream call failed
EmbeddingsFailed ==
    /\ req.app = "proxy" /\ req.route = EmbeddingsRoute
    /\ rpc = "done" /\ rstat.upstream = 1
    /\ rstat.reply # "200 object"

\* C22: on /v1/embeddings an upstream 404 is answered with an error of type
\* not_supported_error (status 400); every other upstream failure (no
\* connection, another status from 400 up, a body that is no JSON object) with
\* an error of another type; in both cases the handler makes exactly one
\* record call, with error=true, on the route.
C22_NotSupported ==
    EmbeddingsFailed =>
        /\ resp.media = "json" /\ resp.body.object = "error"
        /\ rstat.reply = "404" <=> resp.body.error_type = "not_supported_error"
        /\ rstat.reply = "404" => resp.status = 400
        /\ rstat.reply # "404" =>
              /\ resp.body.error_type \in {"invalid_request_error", "server_error"}
              /\ resp.status \in {400, 500}
        /\ rstat.record = 1 /\ rstat.errors = 1
        /\ calls # <<>>
        /\ calls[Len(calls)].route = EmbeddingsRoute /\ calls[Len(calls)].error
        /\ EmbeddingsRoute \in DOMAIN routes
        /\ routes[EmbeddingsRoute].error_count =
              Cardinality({i \in DOMAIN calls : calls[i].route = EmbeddingsRoute
                                                 /\ calls[i].error})

\* the upstream answered 404
C22_Witness ==
    /\ EmbeddingsFailed
    /\ rstat.reply = "404"
    /\ resp.body.error_type = "not_supported_error"
    /\ routes[EmbeddingsRoute].error_count = 1

\* the upstream answered 500
C22_OtherFailure ==
    /\ EmbeddingsFailed
    /\ rstat.reply = "500"
    /\ resp.body.error_type = "invalid_request_error"

\* ------------------------------------------------------------------ C23
\* a streaming chat request that declares tools is being answered with events
StreamingWithTools ==
    /\ req.route = ChatRoute /\ req.stream /\ req.tools # {}
    /\ resp.media = "sse"

\* the statement as written: such a response is always produced from the fully
\* buffered upstream text, never by forwarding the upstream deltas
C23_AsStated == StreamingWithTools => resp.buffered

\* what holds of the gateway alone: its streaming responses are all buffered
C23_GatewayBuffered == (StreamingWithTools /\ req.app = "proxy") => resp.buffered

\* ------------------------------------------------------------------ C24
\* the text holds a list literal whose reading fails: it does not parse, or the
\* conversion of one of its items raises
ListFails ==
    /\ Extracted /\ ~fcall.out.raised
    /\ \E i \in DOMAIN fcall.text :
          /\ fcall.text[i].k = "list"
          /\ fcall.text[i].json = "invalid" \/ ListRaised(fcall.text[i].items)

\* the statement as written: a list whose reading fails contributes no call
C24_AsStated == ListFails => Len(fcall.out.calls) = Len(DirectMatches)

\* what holds: the list is read only when tags and blocks gave no call, and a
\* failed reading leaves the remainder as it was
C24_FallbackLast ==
    (Extracted /\ ~fcall.out.raised) =>
        /\ DirectMatches # <<>> => Len(fcall.out.calls) = Len(DirectMatches)
        /\ (ListFails /\ DirectMatches = <<>>) =>
              \E i \in DOMAIN fcall.out.remaining : fcall.out.remaining[i].k = "list"

\* ------------------------------------------------------------------ C26
\* the tokens validate is called with
ValidateInputs == SuppliedTokens \cup GeneratedTokens \cup {3}

\* the entries a token matches: enabled, with a hash of the token
EnabledMatches(token) ==
    {i \in DOMAIN tokens : ~tokens[i].disabled /\ Checkpw(token, tokens[i].hash)}

\* what a validate(token) step may do
ValidateEffect(token) ==
    LET hits == EnabledMatches(token)
    IN /\ lastOp'.op = "validate"
       /\ IF hits = {}
          THEN /\ lastOp'.result = ""
               /\ tokens' = tokens
          ELSE LET first == CHOOSE i \in hits : \A j \in hits : i <= j
               IN /\ lastOp'.result = tokens[first].user
                  /\ tokens' = [tokens EXCEPT ![first].last_used = tokens'[first].last_used]
                  /\ tokens'[first].last_used = clock
       /\ tokenFile' = tokenFile
       /\ tokenPath' = tokenPath

\* C26: a validate(token) call returns the user of the first entry, in dict
\* order, that is not disabled and whose hash matches the token, and changes
\* nothing but that entry's last_used; with no such entry it returns None and
\* the store is as before. The persisted document is untouched either way.
C26_ValidateFrame ==
    [][\A token \in ValidateInputs : Validate(token) => ValidateEffect(token)]_vars

\* a validate has passed over a disabled entry holding the same token and has
\* returned the enabled entry after it, stamping that entry only
C26_Witness ==
    /\ lastOp.op = "validate" /\ lastOp.result # ""
    /\ Len(tokens) = 2
    /\ tokens[1].disabled /\ Checkpw(lastOp.plain, tokens[1].hash)
    /\ tokens[1].last_used = NoTime
    /\ tokens[2].user = lastOp.result
    /\ tokens[2].last_used # NoTime

\* a validate with no enabled match has returned None
C26_NoMatch ==
    /\ lastOp.op = "validate" /\ lastOp.result = ""
    /\ tokens # <<>>
    /\ \A i \in DOMAIN tokens : tokens[i].last_used = NoTime

\* ------------------------------------------------------------------ C27
ResetInputs == SuppliedTokens \cup {NoToken}

\* the enabled entries before position i that hold the plaintext t
EarlierHolders(toks, i, t) ==
    {j \in 1..(i - 1) : ~toks[j].disabled /\ Checkpw(t, toks[j].hash)}

\* C27 as stated, for a reset step: an unknown user leaves store and file as
\* they are; for a known user only the hash is replaced and last_used cleared,
\* the old token no longer validates, and the returned token validates as the
\* user exactly when the user is not disabled
ResetAsStated(user) ==
    LET i == IndexOfUser(tokens, user)
    IN IF i = 0
       THEN lastOp'.result = "" /\ tokens' = tokens /\ tokenFile' = tokenFile
       ELSE /\ lastOp'.result = "token"
            /\ tokens' = [tokens EXCEPT ![i].hash = tokens'[i].hash,
                                        ![i].created_at = tokens'[i].created_at,
                                        ![i].last_used = NoTime]
            /\ ValidateUser(tokens', plainOf[user]) = ""
            /\ (ValidateUser(tokens', lastOp'.plain) = user) <=> ~tokens[i].disabled

\* C27 as stated, for a delete step: true exactly when the user existed, and
\* the user's token does not validate afterwards
DeleteAsStated(user) ==
    LET i == IndexOfUser(tokens, user)
    IN /\ (lastOp'.result = "true") <=> (i # 0)
       /\ i # 0 => ValidateUser(tokens', plainOf[user]) = ""

C27_AsStated ==
    [][/\ \A user \in Users, token \in ResetInputs :
            ResetToken(user, token) => ResetAsStated(user)
       /\ \A user \in Users : DeleteToken(user) => DeleteAsStated(user)]_vars

\* what a reset step does
ResetEffect(user) ==
    LET i == IndexOfUser(tokens, user)
        old == plainOf[user]
        new == lastOp'.plain
    IN IF i = 0
       THEN lastOp'.result = "" /\ tokens' = tokens /\ tokenFile' = tokenFile
       ELSE /\ lastOp'.result = "token"
            /\ tokens' = [tokens EXCEPT ![i].hash = tokens'[i].hash,
                                        ![i].created_at = clock,
                                        ![i].last_used = NoTime]
            /\ Checkpw(new, tokens'[i].hash)
            /\ new # old => /\ ValidateUser(tokens', old) # user
                            /\ ~Checkpw(old, tokens'[i].hash)
            /\ (ValidateUser(tokens', new) = user) <=>
                   (~tokens[i].disabled /\ EarlierHolders(tokens, i, new) = {})

\* what a delete step does
DeleteEffect(user) ==
    LET i == IndexOfUser(tokens, user)
    IN /\ (lastOp'.result = "true") <=> (i # 0)
       /\ i = 0 => (tokens' = tokens /\ tokenFile' = tokenFile)
       /\ i # 0 =>
             /\ tokens' = SubSeq(tokens, 1, i - 1) \o SubSeq(tokens, i + 1, Len(tokens))
             /\ ValidateUser(tokens', plainOf[user]) # user
             /\ (ValidateUser(tokens', plainOf[user]) = "") <=>
                    (\A j \in DOMAIN tokens' :
                        tokens'[j].disabled \/ ~Checkpw(plainOf[user], tokens'[j].hash))

\* C27 (amended): reset on an unknown user returns None and leaves the store and
\* its document unchanged; on a known user it replaces that user's hash, sets
\* created_at to now and clears last_used, keeping position, disabled flag and
\* metadata; afterwards the old token, when different from the new one, never
\* validates as that user, and the returned token validates as that user
\* exactly when the user is not disabled and no earlier enabled entry holds the
\* same token. delete returns true exactly when the user existed, removes that
\* entry only, and afterwards the user's token never validates as that user (it
\* validates as another enabled user holding the same token, if there is one).
C27_ResetDelete ==
    [][/\ \A user \in Users, token \in ResetInputs :
            ResetToken(user, token) => ResetEffect(user)
       /\ \A user \in Users : DeleteToken(user) => DeleteEffect(user)]_vars

\* a reset has given an enabled user the token an earlier enabled user holds:
\* the returned token validates, as the earlier user
C27_Witness ==
    /\ lastOp.op = "reset" /\ lastOp.result = "token"
    /\ IndexOfUser(tokens, lastOp.user) = 2
    /\ ~tokens[2].disabled
    /\ ValidateUser(tokens, lastOp.plain) = tokens[1].user

\* a delete has removed one of two users; the entry of the other, which has
\* validated before, is still there
C27_DeletedShared ==
    /\ lastOp.op = "delete" /\ lastOp.result = "true"
    /\ Len(tokens) = 1
    /\ ~tokens[1].disabled
    /\ tokens[1].last_used # NoTime

\* ------------------------------------------------------------------ C28
\* what a fresh TokenStore on the same path holds after load()
Reloaded == TokenStoreLoad(tokenFile, <<>>, clock).tokens

\* C28 (as stated): with a path configured and writes succeeding, the document
\* on disk is the in-memory store after every operation that changes an entry,
\* the last_used update of validate included, so a reload reproduces the
\* entries in memory at any point.
C28_AsStated ==
    (Writable(tokenPath) /\ lastOp.op \notin {"none", "load"}) =>
        /\ tokenFile.kind = "object" => tokenFile = TokensPayload(tokens)
        /\ Reloaded = tokens

\* right after an add, reset, set_disabled, update_metadata or delete that
\* changed the store, the document is the in-memory store and reloads to it
C28_SavedByMutators ==
    (Writable(tokenPath) /\ lastOp.result \in {"token", "true"}) =>
        /\ tokenFile = TokensPayload(tokens)
        /\ Reloaded = tokens

\* a validate has stamped an entry whose last_used the document does not have
C28_StaleAfterValidate ==
    /\ Writable(tokenPath)
    /\ lastOp.op = "validate" /\ lastOp.result # ""
    /\ tokenFile.kind = "object"
    /\ \E i \in DOMAIN tokens :
          /\ tokens[i].last_used # NoTime
          /\ tokenFile.tokens[i].last_used = NoTime

\* ------------------------------------------------------------------ C29
\* the threads that have run a statement of update() and have not returned
InsideUpdate == {t \in Threads : upd[t].pc \notin {"idle", "default_model"}}

\* the snapshot a thread got back has every field its payload set
OwnUpdateReturned(t) ==
    upd[t].returned # <<>> =>
        upd[t].returned[1].data = UpdateData(upd[t].returned[1].data, upd[t].payload[1])

\* C29 (as stated), for the admin config store: update() runs in a critical
\* section, so no two threads are inside it at once, the snapshot a call
\* returns has what the call wrote, and the document on disk is the data as a
\* whole call left it, never with half of a call applied.
C29_AsStated ==
    /\ Cardinality(InsideUpdate) <= 1
    /\ \A t \in Threads : OwnUpdateReturned(t)
    /\ (cfgFile.kind = "object" /\ InsideUpdate = {}) => cfgFile.data = cfgData

\* a call has returned a snapshot without the default_model it had just set:
\* another thread's update ran between its assignment and its return
C29_OwnUpdateLost ==
    \E t \in Threads :
        /\ upd[t].returned # <<>>
        /\ upd[t].payload[1].has_model
        /\ upd[t].returned[1].data.default_model # upd[t].payload[1].default_model

\* the document on disk has the default_resource of a call but not its flags
C29_HalfSaved ==
    /\ cfgFile.kind = "object"
    /\ cfgFile.data.default_resource = "res"
    /\ cfgFile.data.flags = {}

\* ------------------------------------------------------------------ C30
\* the totals and breakdowns of a route, without last_seen and latency
Totals(rm) ==
    [count |-> rm.count, error_count |-> rm.error_count, usage |-> rm.usage,
     by_model |-> rm.by_model, by_resource |-> rm.by_resource, by_user |-> rm.by_user]

\* a restart step of a tracker that persists: the fresh tracker has the routes
\* of the old one with the same totals and breakdowns, and no latency sample
RestoredExactly ==
    (Writable(persistPath) /\ metricsFile.kind = "object") =>
        /\ loadRes'.outcome = "loaded"
        /\ DOMAIN routes' = DOMAIN routes
        /\ \A r \in DOMAIN routes :
              /\ Totals(routes'[r]) = Totals(routes[r])
              /\ routes'[r].durations_ms = <<>>
              /\ routes'[r].durations_sum_ms = 0
              /\ ToDict(routes'[r]).latency_ms.count = 0

\* a record step of a tracker that persists: the document written is the
\* snapshot of every route in memory, which is what the document had before
\* plus this record (the latency figures aside)
RewrittenWhole ==
    Writable(persistPath) =>
        /\ metricsFile' = MetricsPayload(routes', startTime')
        /\ DOMAIN metricsFile'.routes = DOMAIN routes'
        /\ metricsFile.kind = "object" =>
              /\ DOMAIN metricsFile.routes \subseteq DOMAIN metricsFile'.routes
              /\ \A r \in DOMAIN metricsFile.routes :
                    /\ metricsFile'.routes[r].count = metricsFile.routes[r].count +
                          (IF calls'[Len(calls')].route = r THEN 1 ELSE 0)
                    /\ calls'[Len(calls')].route # r =>
                          /\ metricsFile'.routes[r].usage = metricsFile.routes[r].usage
                          /\ metricsFile'.routes[r].by_user = metricsFile.routes[r].by_user

\* C30: the document written after a record is a snapshot of every route;
\* loading it into a fresh tracker restores each route's count, error_count,
\* usage totals and model/resource/user breakdowns exactly and leaves the
\* latency window empty with a zero sum; and the first record after a load
\* rewrites the document from the loaded state plus that record.
C30_RoundTrip ==
    [][/\ Restart => RestoredExactly
       /\ RecordAndPersist => RewrittenWhole]_vars

\* after two records, a restart and one more record: the embeddings route was
\* restored with its count and without its latency sample, and the document
\* is the snapshot of the loaded routes plus the new record
C30_Witness ==
    /\ loadRes.outcome = "loaded"
    /\ Len(calls) = 1
    /\ calls[1].route = ChatRoute
    /\ DOMAIN routes = {ChatRoute, EmbeddingsRoute}
    /\ routes[ChatRoute].count = 2
    /\ routes[EmbeddingsRoute].count = 1
    /\ routes[EmbeddingsRoute].durations_ms = <<>>
    /\ metricsFile = MetricsPayload(routes, startTime)
    /\ metricsFile.routes[EmbeddingsRoute].latency_ms.count = 0

\* ------------------------------------------------------------------ C13
\* the tenant table's entry for this request (NoTenant when it has none)
TenantOfRequest == ResolveTenant(tenantMappings, req.auth, rctx.model)

\* C13 (as stated): when the loaded tenant table has an entry for the
\* request's (logical api key, logical model), the upstream call is made with
\* that entry's resource, model and api key.
C13_AsStated ==
    (req.app = "proxy" /\ rstat.upstream > 0 /\ TenantOfRequest # NoTenant) =>
        rctx.settings = [resource |-> TenantOfRequest.foundry_resource,
                         model |-> TenantOfRequest.foundry_model,
                         api_key |-> TenantOfRequest.foundry_api_key]

\* ------------------------------------------------------------ C4, C5, C6
\* the body got past the checks that come before the auth step
WellFormed == req.body = "object" /\ (req.has_input \/ req.route = EmbeddingsRoute)

Answered == rpc = "done" /\ req.app = "proxy"

\* the token the request presents, as the number the store hashes
Presented == TokenNumber(ProxyToken(req.model, req.proxy_token))

\* auth is required and the request presents no token some enabled entry of the
\* configured store matches
LacksValidToken ==
    /\ proxyAuthRequired
    /\ \/ tokenPath = ""
       \/ ProxyToken(req.model, req.proxy_token) = <<>>
       \/ MatchIndex(tokens, Presented) = 0

AuthTexts ==
    {"Proxy auth required: no token provided.",
     "Proxy auth required but token store not configured.",
     "Proxy auth token is invalid."}

C5_AsStated ==
    (Answered /\ WellFormed /\ rstat.failed) =>
        /\ rstat.errors = 1
        /\ served = 1 => (req.route \in DOMAIN routes /\ routes[req.route].error_count = 1)

\* C6 (as stated): with gateway auth required the credential store is
\* consulted exactly once per request.
C6_AsStated ==
    (Answered /\ WellFormed /\ proxyAuthRequired) => rstat.validate = 1

\* the handler has run its auth step
PastAuth == WellFormed /\ rpc \in {"prepare", "upstream", "streaming", "done"}

\* C6: the credential store is consulted at most once per request: exactly
\* once when auth is required, a store is configured and the request presents a
\* token, otherwise not at all; a request reaches the upstream provider under
\* required auth only after the store matched its token to an enabled user; a
\* request whose validation failed never reaches the upstream provider; and
\* when auth is not required the store is never consulted.
C6_StoreConsulted ==
    req.app = "proxy" =>
        /\ rstat.validate <= 1
        /\ rstat.validate = 1 =>
              /\ proxyAuthRequired /\ tokenPath # ""
              /\ ProxyToken(req.model, req.proxy_token) # <<>>
        /\ (/\ PastAuth /\ proxyAuthRequired /\ tokenPath # ""
            /\ ProxyToken(req.model, req.proxy_token) # <<>>) => rstat.validate = 1
        /\ (proxyAuthRequired /\ rstat.upstream > 0) =>
              /\ rstat.validate = 1
              /\ MatchIndex(tokens, Presented) # 0
              /\ rctx.user = ValidateUser(tokens, Presented)
        /\ rstat.auth_failed => rstat.upstream = 0
        /\ ~proxyAuthRequired => (rstat.validate = 0 /\ lastOp.op # "validate")

\* a request whose token the store matched to alice went on to the upstream
\* provider after exactly one lookup
C6_Witness ==
    /\ Answered
    /\ proxyAuthRequired
    /\ rstat.validate = 1 /\ rstat.upstream = 1
    /\ rctx.user = "alice"
    /\ lastOp.op = "validate"

\* ----------------------------------------------------------------- C7, C8
\* the events of the response: those sent and those still to come
WholeStream == resp.events \o pending

\* the tool calls the bridge found in the upstream text
ExpectedCalls ==
    IF req.tools = {} THEN <<>> ELSE ExtractToolCalls(rstat.text, req.tools).calls

\* the text a response without tool calls carries
ExpectedContent ==
    IF rstat.failed THEN <<Txt(rstat.error_text)>>
    ELSE IF rstat.text = <<>> THEN Placeholder ELSE rstat.text

FirstChunkOk(e) ==
    /\ e.type = "chunk" /\ e.role = "assistant" /\ e.finish_reason = ""
    /\ IF e.tool_calls = <<>>
       THEN e.has_content /\ e.content = ExpectedContent
       ELSE /\ ~e.has_content
            /\ Len(e.tool_calls) = Len(ExpectedCalls)
            /\ \A i \in DOMAIN e.tool_calls :
                  /\ e.tool_calls[i].index = i - 1
                  /\ e.tool_calls[i].id = ExpectedCalls[i].id
                  /\ e.tool_calls[i].name = ExpectedCalls[i].name
                  /\ e.tool_calls[i].arguments = ExpectedCalls[i].arguments

\* C7: every buffered streamed chat response is three events: one chunk with
\* the role and either the full text or all tool-call deltas (index, id, name,
\* arguments) and finish_reason null; one terminal chunk with an empty delta and
\* finish_reason tool_calls (when the first chunk carried tool calls) or stop;
\* the [DONE] sentinel last. Events are sent in that order and nothing follows
\* the sentinel.
C7_BufferedSequence ==
    (resp.media = "sse" /\ resp.buffered) =>
        /\ Len(WholeStream) = 3
        /\ FirstChunkOk(WholeStream[1])
        /\ WholeStream[2] = TerminalChunk(IF WholeStream[1].tool_calls # <<>>
                                          THEN "tool_calls" ELSE "stop")
        /\ WholeStream[3] = DoneEvent
        /\ rpc = "done" => (pending = <<>> /\ resp.closed)
        /\ resp.closed => resp.events[Len(resp.events)] = DoneEvent

\* a streamed response carrying two tool-call deltas has been sent in full
C7_Witness ==
    /\ rpc = "done"
    /\ resp.media = "sse" /\ resp.buffered /\ resp.closed
    /\ Len(resp.events) = 3
    /\ Len(resp.events[1].tool_calls) = 2
    /\ resp.events[2].finish_reason = "tool_calls"

\* ------------------------------------------------------------------ C25
\* the gateway's chat handler has returned a response, all of it sent
ChatAnswered ==
    /\ req.app = "proxy" /\ req.route = ChatRoute
    /\ rpc = "done" /\ resp.closed
    /\ resp.media \in {"json", "sse"}

\* the finish reason the client reads
FinishReason ==
    IF resp.media = "sse" THEN resp.events[2].finish_reason ELSE resp.body.finish_reason

\* the tool calls the client reads: id, name and arguments of each
CarriedCalls ==
    LET carried == IF resp.media = "sse" THEN resp.events[1].tool_calls
                   ELSE resp.body.tool_calls
    IN [i \in DOMAIN carried |-> [id |-> carried[i].id, name |-> carried[i].name,
                                  arguments |-> carried[i].arguments]]

\* C25: in every response the gateway's chat handler returns, streamed or not,
\* the finish reason is tool_calls exactly when the extraction over the upstream
\* text recovered a call, and the response then carries exactly those calls, a
\* read_file call with its path under "uri"; otherwise the finish reason is
\* stop and no tool call is carried. Without declared tools nothing is
\* extracted, whatever the text holds. (A request whose extraction raises gets
\* no response from the handler.)
C25_FinishReason ==
    ChatAnswered =>
        /\ FinishReason = (IF ExpectedCalls # <<>> THEN "tool_calls" ELSE "stop")
        /\ CarriedCalls = [i \in DOMAIN ExpectedCalls |->
                              [id |-> ExpectedCalls[i].id, name |-> ExpectedCalls[i].name,
                               arguments |-> ExpectedCalls[i].arguments]]
        /\ \A i \in DOMAIN CarriedCalls :
              CarriedCalls[i].name = "read_file" => CarriedCalls[i].arguments.key = "uri"
        /\ req.tools = {} => (CarriedCalls = <<>> /\ FinishReason = "stop")
        /\ (resp.media = "json" /\ FinishReason = "stop" /\ ~rstat.failed) =>
              resp.body.content = ExpectedContent

\* a non-streamed response with the read_file call of the upstream text
C25_Witness ==
    /\ ChatAnswered
    /\ ~req.stream
    /\ FinishReason = "tool_calls"
    /\ Len(CarriedCalls) = 1
    /\ CarriedCalls[1].name = "read_file"
    /\ CarriedCalls[1].arguments = [key |-> "uri", value |-> "/tmp/a"]

\* tags in the text of a request without tools: the text goes out as it is
C25_NoToolsDeclared ==
    /\ ChatAnswered
    /\ req.tools = {} /\ req.stream
    /\ \E i \in DOMAIN rstat.text : rstat.text[i].k = "tag"
    /\ FinishReason = "stop"
    /\ resp.events[1].content = rstat.text

\* C8 (as stated): a streaming request whose upstream call failed, before or
\* during streaming and whatever the exception, is answered with an event
\* stream that ends with the error text as assistant content, a terminal chunk
\* with an empty delta and finish_reason stop, and the [DONE] sentinel.
C8_AsStated ==
    (rpc = "done" /\ req.stream /\ rstat.up_failed) =>
        /\ resp.media = "sse"
        /\ Len(resp.events) >= 3
        /\ LET n == Len(resp.events)
           IN /\ resp.events[n - 2].type = "chunk"
              /\ resp.events[n - 2].content = <<Txt(rstat.error_text)>>
              /\ resp.events[n - 1] = TerminalChunk("stop")
              /\ resp.events[n] = DoneEvent

====
